---- MODULE Spec2Model ----
(***************************************************************************)
(* Model of the tool-calling agent loop of grokcodecli: the permission     *)
(* gate (src/permissions/manager.ts), the conversation controller          *)
(* (conversation/chat.ts), the tool dispatch and the session store.        *)
(*                                                                         *)
(* Text is modelled as a sequence of one-character strings, so that        *)
(* startsWith and prefix tests are computed as the code computes them.     *)
(* ToolCall.function.arguments (a JSON text) is modelled by the value      *)
(* JSON.parse gives for it: json = "bad" (JSON.parse throws), "null"       *)
(* (parses to null), "obj" (an object); has/val are the presence and the   *)
(* value of the object's primary field (command, file_path).               *)
(***************************************************************************)
EXTENDS Integers, Sequences, FiniteSets, TLC

(* ---------------------------- bounds ----------------------------------- *)
MaxCalls == 2      \* tool calls in one assistant message
MaxIds == 2        \* tool-call ids the completion service issues in a run
MaxInputs == 2     \* lines of input (messages and commands) in a run
MaxSessions == 2   \* session records created in a run
MaxRequests == 3   \* requests made to a stand-alone PermissionManager
LongIds == 10      \* tool-call ids issued in a run with a long turn chain
LongInputs == 2    \* lines of input in a run with a long turn chain
MaxChunks == 3     \* chunks read from one streamed reply
MaxOps == 2        \* tool invocations in a run of the tools

(* ---------------------------- text ------------------------------------- *)
StartsWith(s, p) == Len(s) >= Len(p) /\ SubSeq(s, 1, Len(p)) = p

GitStatus == <<"g","i","t"," ","s","t","a","t","u","s">>
GitPush == <<"g","i","t"," ","p","u","s","h">>
Gitk == <<"g","i","t","k">>
NpmTest == <<"n","p","m"," ","t","e","s","t">>
Ls == <<"l","s">>
LsLa == <<"l","s"," ","-","l","a">>
Lsof == <<"l","s","o","f">>
Make == <<"m","a","k","e">>
RmRfRoot == <<"r","m"," ","-","r","f"," ","/">>
EmptyText == <<>>
ATxt == <<"a",".","t","x","t">>
EtcShadow == <<"/","e","t","c","/","s","h","a","d","o","w">>

BadArgs == [json |-> "bad", has |-> FALSE, val |-> <<>>]
NullArgs == [json |-> "null", has |-> FALSE, val |-> <<>>]
EmptyObj == [json |-> "obj", has |-> FALSE, val |-> <<>>]
Obj(v) == [json |-> "obj", has |-> TRUE, val |-> v]

(* ---------------------------- utils/security.ts ------------------------ *)
\* A regular expression without groups is a sequence of atoms: a character
\* class (cs, or any character) with a quantifier q: "1", "+", "*", or "$"
\* for the end of the text. test() searches for a match starting anywhere.
One(c) == [cs |-> {c}, any |-> FALSE, q |-> "1"]
OneOf(S) == [cs |-> S, any |-> FALSE, q |-> "1"]
Spaces1 == [cs |-> {" "}, any |-> FALSE, q |-> "+"]       \* \s+
Spaces0 == [cs |-> {" "}, any |-> FALSE, q |-> "*"]       \* \s*
AnyStar == [cs |-> {}, any |-> TRUE, q |-> "*"]           \* .*
AtEnd == [cs |-> {}, any |-> FALSE, q |-> "$"]            \* $
Lit(t) == [i \in 1..Len(t) |-> One(t[i])]
Upper ==
  [a |-> "A", b |-> "B", c |-> "C", d |-> "D", e |-> "E", f |-> "F", g |-> "G",
   l |-> "L", m |-> "M", n |-> "N", o |-> "O", p |-> "P", r |-> "R", s |-> "S",
   t |-> "T", v |-> "V", w |-> "W"]
\* a literal under the i flag
LitI(t) ==
  [i \in 1..Len(t) |->
     OneOf(IF t[i] \in DOMAIN Upper THEN {t[i], Upper[t[i]]} ELSE {t[i]})]

RECURSIVE MatchAt(_, _, _, _)
MatchAt(re, k, s, j) ==
  IF k > Len(re) THEN TRUE
  ELSE LET a == re[k]
           here == j <= Len(s) /\ (a.any \/ s[j] \in a.cs)
       IN  CASE a.q = "1" -> here /\ MatchAt(re, k + 1, s, j + 1)
             [] a.q = "*" -> MatchAt(re, k + 1, s, j)
                             \/ (here /\ MatchAt(re, k, s, j + 1))
             [] a.q = "+" -> here /\ (MatchAt(re, k + 1, s, j + 1)
                                      \/ MatchAt(re, k, s, j + 1))
             [] a.q = "$" -> j = Len(s) + 1 /\ MatchAt(re, k + 1, s, j)

Test(re, s) == \E j \in 1..(Len(s) + 1) : MatchAt(re, 1, s, j)

DANGEROUS_COMMANDS ==
  << LitI(<<"r","m">>) \o <<Spaces1>> \o LitI(<<"-","r","f">>) \o <<Spaces1, OneOf({"/", "~"})>>,
     Lit(<<"r","m">>) \o <<Spaces1>> \o Lit(<<"-","r","f">>) \o <<Spaces1, One("*")>>,
     <<One(">"), Spaces0>> \o Lit(<<"/","d","e","v","/","s","d">>),
     Lit(<<"m","k","f","s",".">>),
     Lit(<<"d","d">>) \o <<Spaces1>> \o Lit(<<"i","f","=">>) \o <<AnyStar>> \o Lit(<<"o","f","=","/","d","e","v">>),
     Lit(<<"c","h","m","o","d">>) \o <<Spaces1>> \o Lit(<<"-","R">>) \o <<Spaces1>> \o Lit(<<"7","7","7">>),
     Lit(<<"c","u","r","l">>) \o <<AnyStar, One("|"), Spaces0>> \o Lit(<<"s","h">>),
     Lit(<<"w","g","e","t">>) \o <<AnyStar, One("|"), Spaces0>> \o Lit(<<"s","h">>),
     Lit(<<"c","u","r","l">>) \o <<AnyStar, One("|"), Spaces0>> \o Lit(<<"b","a","s","h">>),
     Lit(<<"w","g","e","t">>) \o <<AnyStar, One("|"), Spaces0>> \o Lit(<<"b","a","s","h">>),
     <<One(":"), One("{"), AnyStar, One("}"), One(";"), One(":")>>,
     <<One(">"), Spaces0>> \o Lit(<<"/","e","t","c","/">>),
     <<One(">"), Spaces0>> \o Lit(<<"/","b","o","o","t","/">>),
     <<One(">"), Spaces0>> \o Lit(<<"/","p","r","o","c","/">>),
     <<One(">"), Spaces0>> \o Lit(<<"/","s","y","s","/">>) >>

\* />\s*(\/etc|\/boot|\/root|\/var\/log)/i
CRITICAL_WRITES ==
  { <<One(">"), Spaces0>> \o LitI(<<"/","e","t","c">>),
    <<One(">"), Spaces0>> \o LitI(<<"/","b","o","o","t">>),
    <<One(">"), Spaces0>> \o LitI(<<"/","r","o","o","t">>),
    <<One(">"), Spaces0>> \o LitI(<<"/","v","a","r","/","l","o","g">>) }

\* /sudo\s+-s|su\s+-|sudo\s+su/
PRIVILEGE_ESCALATION ==
  { Lit(<<"s","u","d","o">>) \o <<Spaces1>> \o Lit(<<"-","s">>),
    Lit(<<"s","u">>) \o <<Spaces1, One("-")>>,
    Lit(<<"s","u","d","o">>) \o <<Spaces1>> \o Lit(<<"s","u">>) }

SENSITIVE_FILES ==
  << Lit(<<".","e","n","v">>) \o <<AtEnd>>,
     Lit(<<".","e","n","v",".">>),
     LitI(<<"c","r","e","d","e","n","t","i","a","l","s">>),
     LitI(<<"s","e","c","r","e","t">>),
     LitI(<<"p","a","s","s","w","o","r","d">>),
     Lit(<<"p","r","i","v","a","t","e","_","k","e","y">>),
     Lit(<<".","p","e","m">>) \o <<AtEnd>>,
     Lit(<<".","k","e","y">>) \o <<AtEnd>>,
     Lit(<<"i","d","_","r","s","a">>),
     Lit(<<"i","d","_","e","d","2","5","5","1","9">>),
     Lit(<<".","s","s","h","/","c","o","n","f","i","g">>),
     Lit(<<".","n","e","t","r","c">>),
     Lit(<<".","n","p","m","r","c">>),
     Lit(<<".","p","y","p","i","r","c">>) >>

Verdict(allowed, severity, reason, suggestion) ==
  [allowed |-> allowed, severity |-> severity, reason |-> reason,
   suggestion |-> suggestion]
Allowed == Verdict(TRUE, "none", "none", "none")

\* validateCommand looking for privilege escalation first
validateCommand_escalationFirst(command) ==
  IF \E re \in PRIVILEGE_ESCALATION : Test(re, command)
  THEN Verdict(TRUE, "medium", "Command requires elevated privileges",
               "This command will prompt for sudo password")
  ELSE IF \E i \in 1..Len(DANGEROUS_COMMANDS) : Test(DANGEROUS_COMMANDS[i], command)
  THEN Verdict(FALSE, "critical", "Command matches a dangerous pattern",
               "This command could cause system damage")
  ELSE IF \E re \in CRITICAL_WRITES : Test(re, command)
  THEN Verdict(FALSE, "high", "Writing to system directories is blocked", "none")
  ELSE Allowed

validateCommand(command) ==
  IF \E i \in 1..Len(DANGEROUS_COMMANDS) : Test(DANGEROUS_COMMANDS[i], command)
  THEN Verdict(FALSE, "critical", "Command matches a dangerous pattern",
               "This command could cause system damage")
  ELSE IF \E re \in CRITICAL_WRITES : Test(re, command)
  THEN Verdict(FALSE, "high", "Writing to system directories is blocked", "none")
  ELSE IF \E re \in PRIVILEGE_ESCALATION : Test(re, command)
  THEN Verdict(TRUE, "medium", "Command requires elevated privileges",
               "This command will prompt for sudo password")
  ELSE Allowed

\* path.resolve: an absolute, normalized path without . and .. segments
Cwd == <<"/", "w">>
RECURSIVE Split(_)
Split(p) ==      \* the segments of p between "/" characters
  IF p = <<>> THEN << <<>> >>
  ELSE LET rest == Split(Tail(p)) IN
       IF Head(p) = "/" THEN << <<>> >> \o rest
       ELSE << <<Head(p)>> \o Head(rest) >> \o Tail(rest)
RECURSIVE Fold(_, _)
Fold(segs, acc) ==   \* drops empty and "." segments, ".." removes one
  IF segs = <<>> THEN acc
  ELSE LET g == Head(segs) IN
       IF g = <<>> \/ g = <<".">> THEN Fold(Tail(segs), acc)
       ELSE IF g = <<".", ".">>
            THEN Fold(Tail(segs),
                      IF acc = <<>> THEN acc ELSE SubSeq(acc, 1, Len(acc) - 1))
       ELSE Fold(Tail(segs), Append(acc, g))
RECURSIVE Join(_)
Join(segs) == IF segs = <<>> THEN <<>> ELSE <<"/">> \o Head(segs) \o Join(Tail(segs))
resolve(p) ==
  LET full == IF p # <<>> /\ Head(p) = "/" THEN p ELSE Cwd \o <<"/">> \o p
      segs == Fold(Split(full), <<>>)
  IN  IF segs = <<>> THEN <<"/">> ELSE Join(segs)

Contains(s, p) == \E j \in 1..(Len(s) - Len(p) + 1) : SubSeq(s, j, j + Len(p) - 1) = p

BLOCKED_PATHS ==
  << <<"/","e","t","c","/","p","a","s","s","w","d">>,
     <<"/","e","t","c","/","s","h","a","d","o","w">>,
     <<"/","e","t","c","/","s","u","d","o","e","r","s">>,
     <<"/","e","t","c","/","s","s","h","/">>,
     <<"/","r","o","o","t","/",".","s","s","h","/">>,
     <<"/","p","r","o","c","/">>,
     <<"/","s","y","s","/">>,
     <<"/","d","e","v","/">> >>

\* validatePath comparing the path as written with the blocked paths
validatePath_asWritten(filePath, allowedRoots) ==
  IF \E i \in 1..Len(BLOCKED_PATHS) :
        \/ StartsWith(filePath, BLOCKED_PATHS[i])
        \/ filePath = SubSeq(BLOCKED_PATHS[i], 1, Len(BLOCKED_PATHS[i]) - 1)
  THEN Verdict(FALSE, "critical", "Access is blocked for security", "none")
  ELSE Allowed

\* allowedRoots is a set of root paths; {} when the caller supplies none
validatePath(filePath, allowedRoots) ==
  LET normalized == resolve(filePath) IN
  IF /\ Contains(filePath, <<".", ".">>)
     /\ allowedRoots # {}
     /\ ~ \E root \in allowedRoots : StartsWith(normalized, resolve(root))
  THEN Verdict(FALSE, "high", "Path traversal detected", "none")
  ELSE IF \E i \in 1..Len(BLOCKED_PATHS) :
            \/ StartsWith(normalized, BLOCKED_PATHS[i])
            \/ normalized = SubSeq(BLOCKED_PATHS[i], 1, Len(BLOCKED_PATHS[i]) - 1)
  THEN Verdict(FALSE, "critical", "Access is blocked for security", "none")
  ELSE IF \E i \in 1..Len(SENSITIVE_FILES) : Test(SENSITIVE_FILES[i], normalized)
  THEN Verdict(TRUE, "medium", "This appears to be a sensitive file",
               "Be careful with files containing credentials or secrets")
  ELSE Allowed

(* ---------------------------- state ------------------------------------ *)
VARIABLES
  autoApprove,        \* PermissionConfig.autoApprove
  alwaysDeny,         \* PermissionConfig.alwaysDeny (an array: push, includes)
  sessionApproved,    \* PermissionConfig.sessionApproved
  req,                \* the PermissionRequest being decided
  gate,               \* "idle" | "prompt" (awaiting interactiveSelect) | "ret"
  ret,                \* value returned by the last requestPermission
  prompts,            \* prompts shown for the request in req
  answer,             \* what interactiveSelect returned for the last prompt
  requests,           \* requests made so far to the stand-alone manager
  messages,           \* GrokChat.messages, the transcript
  session,            \* id of GrokChat.session
  store,              \* the saved session documents: id -> messages
  useStreaming,       \* GrokChat.useStreaming
  pc,                 \* where the controller is: "idle" (awaiting input),
                      \* "turn" (completion request in flight), "call" (about
                      \* to process calls[idx]), "prompt", "exec" (tool running)
  calls,              \* the tool calls of the assistant message in process
  idx,                \* index in calls of the call in process
  inputs,             \* lines of input so far
  nextId,             \* next tool-call id the completion service issues
  log,                \* what was done for the tool calls of this turn
  tokenUsage,         \* GrokChat.tokenUsage
  titles,             \* the title of each session record: id -> title
  chunks,             \* the tool_calls deltas read from the stream so far
  toolCalls,          \* getStreamingResponse: the completed tool calls
  currentToolCall,    \* getStreamingResponse: the pending tool call
  aborted,            \* getStreamingResponse: Esc was pressed
  reading,            \* the for-await loop over the stream is running
  file,               \* the file a tool works on: exists, content
  toolParams,         \* the parameters of the last tool invocation
  toolResult,         \* the ToolResult of the last tool invocation
  fetched,            \* the URLs for which fetch() was called
  ops,                \* tool invocations so far
  effects,            \* the fs and child_process calls of the last invocation
  securityCheck,      \* the SecurityCheckResult of the last invocation
  child,              \* the spawned bash: "none" | "unspawned" | "running" |
                      \* "exit-0" | "exit-1" | "signalled"
  descendants,        \* processes started by bash hold its stdio pipes
  killed,             \* bashTool: the timeout handler ran
  timer,              \* "off" | "armed" (timeout) | "grace" (5 s) | "done"
  signals,            \* the signals delivered to the running child
  pending,            \* the promise of bashTool is not resolved yet
  outstanding,        \* completion requests sent and not yet answered
  executing,          \* tool calls of an assistant message being processed
  sigint,             \* Ctrl+C arrived during the turn chain in flight
  initialModel,       \* ChatOptions.model, the model asked for
  baseModel,          \* GrokChat.baseModel
  thinkingMode,       \* GrokChat.thinkingMode
  clientModel,        \* GrokChat.client.model, the model of the requests
  modelSetBy,         \* what made the client: "constructor", "toggle", "model"
  wire,               \* the response body: its text, its reads, the reads taken
  decoder,            \* chatStream: bytes the TextDecoder holds back
  lineBuffer,         \* chatStream: the text after the last line feed
  yielded,            \* chatStream: the frames yielded so far
  found,              \* the output of the last Glob or Grep invocation
  verdicts,           \* the verdicts returned so far: check, input, verdict
  lastIndex           \* lastIndex of the patterns of each check

permVars == <<autoApprove, alwaysDeny, sessionApproved>>
pmVars == <<req, gate, ret, prompts, answer, requests>>
chatVars == <<messages, session, store, useStreaming, pc, calls, idx, inputs,
              nextId, log, tokenUsage, titles>>
streamVars == <<chunks, toolCalls, currentToolCall, aborted, reading>>
procVars == <<child, descendants, killed, timer, signals, pending>>
toolVars == <<file, toolParams, toolResult, fetched, ops, effects, securityCheck,
              procVars>>
turnVars == <<outstanding, executing, sigint>>
modelVars == <<initialModel, baseModel, thinkingMode, clientModel, modelSetBy>>
wireVars == <<wire, decoder, lineBuffer, yielded>>
searchVars == <<found, verdicts, lastIndex>>
restVars == <<modelVars, wireVars, searchVars>>
vars == <<permVars, pmVars, chatVars, streamVars, toolVars, turnVars, restVars>>

(* ---------------------------- PermissionManager ------------------------ *)
Includes(arr, x) == \E i \in 1..Len(arr) : arr[i] = x

TOOL_RISK_LEVELS ==
  [Read |-> "read", Glob |-> "read", Grep |-> "read", Write |-> "write",
   Edit |-> "write", Bash |-> "execute", WebFetch |-> "read"]

getToolRiskLevel(tool) ==
  IF tool \in DOMAIN TOOL_RISK_LEVELS THEN TOOL_RISK_LEVELS[tool] ELSE "execute"

\* details?.command : a present, non-empty command of an object
Truthy(details) == details.json = "obj" /\ details.has /\ details.val # <<>>


\* getSessionKey without the command classes
getSessionKey_toolOnly(tool, details) == tool

getSessionKey(tool, details) ==
  IF tool = "Bash" /\ Truthy(details)
  THEN IF StartsWith(details.val, <<"g","i","t"," ">>) THEN "Bash:git"
       ELSE IF StartsWith(details.val, <<"n","p","m"," ">>) THEN "Bash:npm"
       ELSE IF StartsWith(details.val, <<"l","s"," ">>) \/ details.val = <<"l","s">>
            THEN "Bash:ls"
       ELSE tool
  ELSE tool


\* requestPermission with the session approvals looked up before alwaysDeny
requestPermission_sessionFirst(r) ==
  IF getSessionKey(r.tool, r.details) \in sessionApproved THEN "allow"
  ELSE IF Includes(alwaysDeny, r.tool) THEN "deny"
  ELSE IF r.tool \in autoApprove \/ "*" \in autoApprove THEN "allow"
  ELSE IF r.riskLevel = "read" /\ "read" \in autoApprove THEN "allow"
  ELSE "prompt"

\* requestPermission without the blanket approval of read-level requests
requestPermission_noBlanketRead(r) ==
  IF Includes(alwaysDeny, r.tool) THEN "deny"
  ELSE IF r.tool \in autoApprove \/ "*" \in autoApprove THEN "allow"
  ELSE IF getSessionKey(r.tool, r.details) \in sessionApproved THEN "allow"
  ELSE "prompt"

\* requestPermission up to its return or its call of promptUser
requestPermission(r) ==
  IF Includes(alwaysDeny, r.tool) THEN "deny"
  ELSE IF r.tool \in autoApprove \/ "*" \in autoApprove THEN "allow"
  ELSE IF getSessionKey(r.tool, r.details) \in sessionApproved THEN "allow"
  ELSE IF r.riskLevel = "read" /\ "read" \in autoApprove THEN "allow"
  ELSE "prompt"

Choices == {"once", "session", "deny", "block", "null"}

\* a promptUser that remembers an allow-once answer like an allow-session one
promptUser_onceRemembers(r, choice) ==
  [ret |-> choice \in {"once", "session"},
   sessionApproved |->
     IF choice \in {"once", "session"}
     THEN sessionApproved \cup {getSessionKey(r.tool, r.details)}
     ELSE sessionApproved,
   alwaysDeny |->
     IF choice = "block" THEN Append(alwaysDeny, r.tool) ELSE alwaysDeny]

\* promptUser after interactiveSelect returned choice: the value returned and
\* the PermissionConfig it leaves
promptUser(r, choice) ==
  [ret |-> choice \in {"once", "session"},
   sessionApproved |->
     IF choice = "session"
     THEN sessionApproved \cup {getSessionKey(r.tool, r.details)}
     ELSE sessionApproved,
   alwaysDeny |->
     IF choice = "block" THEN Append(alwaysDeny, r.tool) ELSE alwaysDeny]

(* ----------------- a stand-alone PermissionManager --------------------- *)
PMTools == {"Bash", "Read"}
PMDetails == {NullArgs, Obj(GitStatus), Obj(GitPush), Obj(Gitk), Obj(NpmTest),
              Obj(Ls), Obj(LsLa), Obj(Lsof), Obj(Make), Obj(EmptyText)}
PMRequests ==
  {[tool |-> t, riskLevel |-> l, details |-> d] :
     t \in PMTools, l \in {"read", "write", "execute"}, d \in PMDetails}
AutoApproveArgs == SUBSET {"Bash", "Read", "*", "read"}
NoRequest == [tool |-> "", riskLevel |-> "read", details |-> NullArgs]

\* the variables of the stream reader and of the tools when neither runs
NoParams ==
  [tool |-> "none", old_string |-> <<>>, new_string |-> <<>>,
   replace_all |-> FALSE, url |-> <<>>, file_path |-> <<>>,
   content |-> <<>>, size |-> "small", command |-> <<>>, allowedRoots |-> {},
   json |-> "obj", cwd |-> "unset"]
NoResult == [success |-> FALSE, kind |-> "none", n |-> 0]
NoFile == [exists |-> FALSE, content |-> <<>>]
ZeroUsage == [promptTokens |-> 0, completionTokens |-> 0, totalTokens |-> 0]
\* no validator was called
NoCheck == Verdict(TRUE, "no-check", "none", "none")
ProcIdle ==
  /\ child = "none"
  /\ descendants = FALSE
  /\ killed = FALSE
  /\ timer = "off"
  /\ signals = <<>>
  /\ pending = FALSE
\* the added parts of the state when nothing of them runs
NoText == <<>>
NotSearched ==
  [tool |-> "none", listing |-> <<>>, failed |-> FALSE, count |-> 0, shown |-> <<>>]
TurnIdle ==
  /\ outstanding = 0
  /\ executing = 0
  /\ sigint = FALSE
WireIdle ==
  /\ wire = [text |-> NoText, reads |-> <<>>, taken |-> 0, done |-> TRUE]
  /\ decoder = NoText
  /\ lineBuffer = NoText
  /\ yielded = <<>>
SearchIdle ==
  /\ found = NotSearched
  /\ verdicts = <<>>
  /\ lastIndex = [c \in {"path", "command", "url"} |-> 0]
RestIdle == TurnIdle /\ WireIdle /\ SearchIdle
ModelIdle ==
  /\ initialModel = NoText
  /\ baseModel = NoText
  /\ thinkingMode = FALSE
  /\ clientModel = NoText
  /\ modelSetBy = "constructor"
StreamIdle ==
  /\ chunks = <<>>
  /\ toolCalls = <<>>
  /\ currentToolCall = <<>>
  /\ aborted = FALSE
  /\ reading = FALSE
ToolsIdle ==
  /\ file = NoFile
  /\ toolParams = NoParams
  /\ toolResult = NoResult
  /\ fetched = {}
  /\ ops = 0
  /\ effects = <<>>
  /\ securityCheck = NoCheck
  /\ ProcIdle

PMInit ==
  /\ StreamIdle
  /\ ToolsIdle
  /\ RestIdle
  /\ ModelIdle
  /\ autoApprove \in AutoApproveArgs
  /\ alwaysDeny = <<>>
  /\ sessionApproved = {}
  /\ req = NoRequest
  /\ gate = "idle"
  /\ ret = FALSE
  /\ prompts = 0
  /\ answer = "none"
  /\ requests = 0
  /\ messages = <<>>
  /\ session = 0
  /\ store = <<>>
  /\ useStreaming = TRUE
  /\ pc = "none"
  /\ calls = <<>>
  /\ idx = 0
  /\ inputs = 0
  /\ nextId = 1
  /\ log = <<>>
  /\ tokenUsage = ZeroUsage
  /\ titles = <<>>

\* a caller calls requestPermission(r); the call returns or awaits the prompt
PMRequest(r) ==
  /\ UNCHANGED <<streamVars, toolVars, turnVars, restVars>>
  /\ gate \in {"idle", "ret"}
  /\ requests < MaxRequests
  /\ requests' = requests + 1
  /\ req' = r
  /\ LET d == requestPermission(r) IN
       /\ gate' = IF d = "prompt" THEN "prompt" ELSE "ret"
       /\ ret' = (d = "allow")
       /\ prompts' = IF d = "prompt" THEN 1 ELSE 0
  /\ answer' = "none"
  /\ UNCHANGED <<permVars, chatVars>>

\* interactiveSelect resolves with choice and promptUser returns
PMAnswer(choice) ==
  /\ UNCHANGED <<streamVars, toolVars, turnVars, restVars>>
  /\ gate = "prompt"
  /\ LET p == promptUser(req, choice) IN
       /\ ret' = p.ret
       /\ sessionApproved' = p.sessionApproved
       /\ alwaysDeny' = p.alwaysDeny
  /\ gate' = "ret"
  /\ answer' = choice
  /\ UNCHANGED <<autoApprove, req, prompts, requests, chatVars>>

PMNext ==
  \/ \E r \in PMRequests : PMRequest(r)
  \/ \E c \in Choices : PMAnswer(c)

SpecPM == PMInit /\ [][PMNext]_vars

(* ---------------------------- tools ------------------------------------ *)
\* A ToolResult: success, the kind of its output or error text, and for a
\* security denial the fields of the verdict that the error text carries.
Result(success, kind, carries) ==
  [success |-> success, kind |-> kind, carries |-> carries]
Thrown == Result(FALSE, "throws", {})
\* what the file system or the process does: "big" is an output as large as
\* the tool lets through
ToolEnvs == {"ok", "fail", "big"}


\* bashTool rejecting, instead of returning a result, on a denied command
bashTool_throwsOnDenial(params, env) ==
  IF ~params.has THEN Thrown
  ELSE IF ~validateCommand(params.val).allowed THEN Thrown
  ELSE IF env \in {"ok", "big"} THEN Result(TRUE, "output", {})
  ELSE Result(FALSE, "error", {})

\* bashTool: params.command undefined passes validateCommand and makes spawn
\* throw inside the promise executor
bashTool(params, env) ==
  IF ~params.has THEN Thrown
  ELSE LET security == validateCommand(params.val) IN
       IF ~security.allowed
       THEN Result(FALSE, "security",
                   {"reason"} \cup (IF security.suggestion # "none"
                                    THEN {"suggestion"} ELSE {}))
       ELSE IF env \in {"ok", "big"} THEN Result(TRUE, "output", {})
       ELSE Result(FALSE, "error", {})

\* readTool: path.resolve(undefined) throws inside the try block
readTool(params, env) ==
  IF ~params.has THEN Result(FALSE, "error", {})
  ELSE LET security == validatePath(resolve(params.val), {}) IN
       IF ~security.allowed THEN Result(FALSE, "security", {"reason"})
       ELSE IF env = "ok" THEN Result(TRUE, "output", {})
       ELSE IF env = "big" THEN Result(TRUE, "big-output", {})
       ELSE Result(FALSE, "error", {})

executeTool(name, params, env) ==
  CASE name = "Read" -> readTool(params, env)
    [] name = "Bash" -> bashTool(params, env)
    [] OTHER -> Result(FALSE, "unknown-tool", {})

(* ---------------------------- GrokChat --------------------------------- *)
Msg(role, id, cs, kind, carries) ==
  [role |-> role, id |-> id, calls |-> cs,
   content |-> [kind |-> kind, carries |-> carries]]
SystemMsg == Msg("system", 0, <<>>, "SYSTEM_PROMPT", {})
Undefined == Msg("undefined", 0, <<>>, "undefined", {})   \* messages[0] of []
UserMsg(size) == Msg("user", 0, <<>>, size, {})
AssistantMsg(cs) == Msg("assistant", 0, cs, "text", {})
ToolMsg(id, kind, carries) == Msg("tool", id, <<>>, kind, carries)

\* what JSON.stringify writes for an undefined entry of an array
Null == Msg("null", 0, <<>>, "null", {})
IsMessage(m) == m \notin {Undefined, Null}

InputSizes == {"input", "huge-input"}   \* huge: more than 6.4M characters
\* the content of a user message, or its first 51 characters when it has more
Content(size) ==
  IF size = "input" THEN <<"h", "i">> ELSE [i \in 1..51 |-> "a"]

\* response.usage of a completion: present or not
Usage(p, c, t) ==
  [present |-> TRUE, prompt_tokens |-> p, completion_tokens |-> c, total_tokens |-> t]
NoUsage ==
  [present |-> FALSE, prompt_tokens |-> 0, completion_tokens |-> 0, total_tokens |-> 0]
Usages == {NoUsage, Usage(2, 1, 3), Usage(1, 1, 2)}
\* a getResponse that keeps the usage of the last response only
addUsage_lastOnly(t, u) ==
  IF u.present
  THEN [promptTokens |-> u.prompt_tokens,
        completionTokens |-> u.completion_tokens,
        totalTokens |-> u.total_tokens]
  ELSE t
\* getResponse: tokenUsage after a response with the usage u
addUsage(t, u) ==
  IF u.present
  THEN [promptTokens |-> t.promptTokens + u.prompt_tokens,
        completionTokens |-> t.completionTokens + u.completion_tokens,
        totalTokens |-> t.totalTokens + u.total_tokens]
  ELSE t

\* the (name, arguments) pairs the completion service asks for
CallKinds ==
  { <<"Bash", BadArgs>>, <<"Bash", EmptyObj>>, <<"Bash", Obj(GitStatus)>>,
    <<"Bash", Obj(RmRfRoot)>>, <<"Read", NullArgs>>, <<"Read", Obj(ATxt)>> }
ToolCall(id, k) == [id |-> id, name |-> k[1], args |-> k[2]]
\* what follows the first call in a reply with several calls
MoreKinds == {<<"Bash", Obj(GitStatus)>>, <<"Read", Obj(EtcShadow)>>}
\* the tool calls of one reply: fresh ids first, first + 1, .. in the order
\* emitted; at most MaxCalls of them
RECURSIVE More(_, _)
More(id, n) ==
  IF n = 0 THEN {<<>>}
  ELSE {<<>>} \cup {<<ToolCall(id, k)>> \o m : k \in MoreKinds, m \in More(id + 1, n - 1)}
Replies(first) ==
  {<<>>} \cup {<<ToolCall(first, k)>> \o m :
                k \in CallKinds, m \in More(first + 1, MaxCalls - 1)}
\* what was accumulated when Esc stops a streamed reply: nothing, or a call
\* with its arguments incomplete or complete
Partials(first) ==
  {<<>>} \cup {<<ToolCall(first, k)>> :
                k \in {<<"Bash", BadArgs>>, <<"Bash", Obj(GitStatus)>>}}

Ev(e, id) == [e |-> e, id |-> id]


\* a parse that accepts every argument text
parseThrows_never(args) == FALSE

\* JSON.parse(argsJson) throws
parseThrows(args) == args.json = "bad"

KnownTools == {"Read", "Write", "Edit", "Bash", "Glob", "Grep", "WebFetch"}
\* formatToolDetails reads a property of params: a TypeError on null
formatToolDetailsThrows(name, params) ==
  name \in KnownTools /\ params.json = "null"
\* the tool display of executeToolCall calls .slice on params.command / url
toolInfoThrows(name, params) ==
  \/ name \in {"Bash", "WebFetch"} /\ ~params.has
  \/ name = "WebSearch" /\ params.json = "null"

Request(c) ==
  [tool |-> c.name, riskLevel |-> getToolRiskLevel(c.name), details |-> c.args]

\* the autoApprove array of the user's configuration (the README's example)
configAutoApprove == {"Read", "Glob", "Grep"}

\* handleCompact
keepCount == 20

\* a compaction that keeps the most recent messages only
handleCompact_withoutFirst(msgs) ==
  IF Len(msgs) > keepCount + 1
  THEN SubSeq(msgs, Len(msgs) - keepCount, Len(msgs))
  ELSE msgs

LastN(msgs, n) ==
  IF Len(msgs) <= n THEN msgs ELSE SubSeq(msgs, Len(msgs) - n + 1, Len(msgs))
handleCompact(msgs) ==
  IF Len(msgs) > keepCount + 1
  THEN <<msgs[1]>> \o LastN(msgs, keepCount)
  ELSE msgs

\* the loop's estimate of the transcript: characters / 4 > 0.8 * 2,000,000,
\* that is more than 6.4M characters: one huge input, or two outputs of
\* readTool at its limit (MAX_LINES lines of up to 2000 characters each)
OverBudget(msgs) ==
  \/ \E i \in 1..Len(msgs) : msgs[i].content.kind = "huge-input"
  \/ Cardinality({i \in 1..Len(msgs) : msgs[i].content.kind = "big-output"}) >= 2

(* ---------------------------- HistoryManager --------------------------- *)
NewConversation == <<"N", "e", "w", " ", "C", "o", "n", "v", "e", "r", "s", "a", "t", "i", "o", "n">>
titleLength == 50
slice(t, n) == SubSeq(t, 1, IF Len(t) < n THEN Len(t) ELSE n)
\* content.slice(0, 50) + (content.length > 50 ? '...' : '')
titleOf(content) ==
  slice(content, titleLength) \o
    (IF Len(content) > titleLength THEN <<".", ".", ".">> ELSE <<>>)
\* messages.find(m => m.role === 'user'): 0 when there is none
find(msgs) ==
  IF \E i \in 1..Len(msgs) : msgs[i].role = "user"
  THEN CHOOSE i \in 1..Len(msgs) :
         msgs[i].role = "user" /\ \A j \in 1..(i - 1) : msgs[j].role # "user"
  ELSE 0
\* find reads m.role of an entry that is undefined or null: a TypeError
findThrows(msgs) ==
  \E i \in 1..Len(msgs) :
     ~IsMessage(msgs[i]) /\ \A j \in 1..(i - 1) : msgs[j].role # "user"
saveThrows(t, msgs) == t = NewConversation /\ Len(msgs) > 1 /\ findThrows(msgs)
\* a saveSession that derives the title at every save
savedTitle_always(t, msgs) ==
  IF Len(msgs) > 1 /\ find(msgs) # 0
  THEN titleOf(Content(msgs[find(msgs)].content.kind))
  ELSE t
\* saveSession: the title that is written
savedTitle(t, msgs) ==
  IF t = NewConversation /\ Len(msgs) > 1 /\ find(msgs) # 0
  THEN titleOf(Content(msgs[find(msgs)].content.kind))
  ELSE t
\* JSON.stringify followed by JSON.parse: an undefined entry comes back null
JSON_stringify(msgs) ==
  [i \in 1..Len(msgs) |-> IF msgs[i] = Undefined THEN Null ELSE msgs[i]]
JSON_parse(doc) == doc

\* HistoryManager.saveSession of the current session
Saved(msgs) == [store EXCEPT ![session] = JSON_stringify(msgs)]
\* GrokChat.saveSession: the title is set, the document is written; when
\* the title cannot be derived nothing is written
SaveSession(msgs) ==
  IF saveThrows(titles[session], msgs)
  THEN UNCHANGED <<store, titles>>
  ELSE /\ store' = Saved(msgs)
       /\ titles' = [titles EXCEPT ![session] = savedTitle(titles[session], msgs)]


\* the tool calls taken last to first
CallOrder_reversed(cs) == [i \in 1..Len(cs) |-> cs[Len(cs) + 1 - i]]

\* the order in which the for-of loop takes the tool calls of a message
CallOrder(cs) == cs

Init ==
  /\ StreamIdle
  /\ ToolsIdle
  /\ RestIdle
  /\ ModelIdle
  /\ autoApprove = {}                 \* new PermissionManager()
  /\ alwaysDeny = <<>>
  /\ sessionApproved = {}
  /\ req = NoRequest
  /\ gate = "idle"
  /\ ret = FALSE
  /\ prompts = 0
  /\ answer = "none"
  /\ requests = 0
  /\ messages = <<SystemMsg>>         \* start()
  /\ session = 1
  /\ store = << <<>> >>               \* createSession saves messages: []
  /\ useStreaming = TRUE
  /\ pc = "idle"
  /\ calls = <<>>
  /\ idx = 0
  /\ inputs = 0
  /\ nextId = 1
  /\ log = <<>>
  /\ tokenUsage = ZeroUsage
  /\ titles = <<NewConversation>>    \* createSession

\* A completion request is outstanding from the step that sends it to the
\* step that receives its reply or its failure; a tool call is in process
\* from the start of the for loop over the tool calls to its end. The signal
\* flag is dropped when the turn chain ends.
InTurn(p) == IF p = "turn" THEN 1 ELSE 0
InCalls(p) == IF p \in {"call", "prompt", "exec"} THEN 1 ELSE 0
Counted ==
  /\ outstanding' = outstanding + InTurn(pc') - InTurn(pc)
  /\ executing' = executing + InCalls(pc') - InCalls(pc)
  /\ sigint' = IF pc' = "idle" THEN FALSE ELSE sigint

\* loop() awaits processMessage: it reads a line only between two turns
loop_notAwaited == pc \in {"idle", "turn"}
AtPrompt == pc = "idle"

\* loop(): a line of input that is no command; auto-compact, processMessage
ProcessMessage(size) ==
  /\ UNCHANGED <<restVars, streamVars, toolVars, tokenUsage, titles>>
  /\ AtPrompt
  /\ inputs' = inputs + 1
  /\ IF \E i \in 1..Len(messages) : ~IsMessage(messages[i])
     THEN \* the estimate reads m.content of undefined: loop() is left
          /\ pc' = "crashed"
          /\ UNCHANGED <<messages, outstanding>>
     ELSE /\ messages' = Append(IF OverBudget(messages) THEN handleCompact(messages)
                                ELSE messages, UserMsg(size))
          /\ pc' = "turn"
          /\ outstanding' = outstanding + 1
  /\ UNCHANGED <<permVars, pmVars, session, store, useStreaming, calls, idx, nextId, log>>
  /\ UNCHANGED <<executing, sigint>>

\* getStreamingResponse / getResponse: the reply is complete; getResponse
\* adds response.usage to tokenUsage; the assistant message is pushed and,
\* without tool calls, the turn chain ends and processMessage saves the session
Respond(cs, usage) ==
  /\ UNCHANGED <<restVars, streamVars, toolVars>>
  /\ pc = "turn"
  /\ usage.present => ~useStreaming
  /\ tokenUsage' = addUsage(tokenUsage, usage)
  /\ nextId' = nextId + Len(cs)
  /\ messages' = Append(messages, AssistantMsg(cs))
  /\ log' = <<>>
  /\ IF cs # <<>>
     THEN /\ calls' = CallOrder(cs)
          /\ idx' = 1
          /\ pc' = "call"
          /\ UNCHANGED <<store, titles>>
     ELSE /\ calls' = <<>>
          /\ idx' = 0
          /\ pc' = "idle"
          /\ SaveSession(messages')
  /\ UNCHANGED <<permVars, pmVars, session, useStreaming,
                 inputs>>
  /\ Counted

\* a reply that carries no usage
Reply(cs) == Respond(cs, NoUsage)

\* Esc during a streamed turn: aborted = true, the loop breaks; the message
\* built from what was accumulated is pushed, its tool calls are not executed
Escape(cs) ==
  /\ UNCHANGED <<restVars, streamVars, toolVars, tokenUsage>>
  /\ pc = "turn"
  /\ useStreaming
  /\ nextId' = nextId + Len(cs)
  /\ messages' = Append(messages, AssistantMsg(cs))
  /\ log' = <<Ev("abort", 0)>>
  /\ calls' = <<>>
  /\ idx' = 0
  /\ pc' = "idle"
  /\ SaveSession(messages')
  /\ UNCHANGED <<permVars, pmVars, session, useStreaming,
                 inputs>>
  /\ Counted

\* a failure answered by an empty assistant message
RequestFails_pushesReply ==
  /\ UNCHANGED <<restVars, streamVars, toolVars, tokenUsage, titles>>
  /\ pc = "turn"
  /\ pc' = "idle"
  /\ calls' = <<>>
  /\ idx' = 0
  /\ messages' = Append(messages, [role |-> "assistant", id |-> 0, calls |-> <<>>,
                                    content |-> [kind |-> "text", carries |-> {}]])
  /\ log' = Append(log, [e |-> "error", id |-> 0])
  /\ UNCHANGED <<autoApprove, alwaysDeny, sessionApproved, req, gate, ret,
                 prompts, answer, requests, session, store, useStreaming,
                 inputs, nextId>>
  /\ Counted

\* the completion request fails: chat / chatStream throws, processMessage
\* reports the error and does not save
RequestFails ==
  /\ UNCHANGED <<restVars, streamVars, toolVars, tokenUsage, titles>>
  /\ pc = "turn"
  /\ pc' = "idle"
  /\ calls' = <<>>
  /\ idx' = 0
  /\ log' = Append(log, Ev("error", 0))
  /\ UNCHANGED <<permVars, pmVars, messages, session, store, useStreaming, inputs, nextId>>
  /\ Counted

\* after the tool message of calls[idx]: the next call, or the next turn
Advance ==
  IF idx < Len(calls)
  THEN idx' = idx + 1 /\ pc' = "call" /\ UNCHANGED calls
  ELSE idx' = 0 /\ pc' = "turn" /\ calls' = <<>>

\* an exception leaves executeToolCall and the turn: processMessage catches
Throw ==
  /\ pc' = "idle"
  /\ idx' = 0
  /\ calls' = <<>>

\* requestPermission returned true: the tool display, then executeTool
Approved(c, lg) ==
  IF toolInfoThrows(c.name, c.args)
  THEN /\ Throw
       /\ log' = Append(lg, Ev("throw", c.id))
  ELSE /\ pc' = "exec"
       /\ log' = Append(lg, Ev("exec", c.id))
       /\ UNCHANGED <<calls, idx>>


\* the denial branch without its return: the tool is executed all the same
Denied_noReturn(c, lg) ==
  /\ messages' = Append(messages, ToolMsg(c.id, "permission-denied", {}))
  /\ log' = Append(Append(lg, Ev("msg", c.id)), Ev("exec", c.id))
  /\ pc' = "exec"
  /\ UNCHANGED <<calls, idx>>

\* requestPermission returned false
Denied(c, lg) ==
  /\ messages' = Append(messages, ToolMsg(c.id, "permission-denied", {}))
  /\ log' = Append(lg, Ev("msg", c.id))
  /\ Advance

\* executeToolCall(calls[idx]) up to its first await
ExecuteToolCall ==
  /\ UNCHANGED <<restVars, streamVars, toolVars, tokenUsage, titles>>
  /\ pc = "call"
  /\ LET c == calls[idx]
         lg == Append(log, Ev("start", c.id))
     IN
     IF parseThrows(c.args)
     THEN /\ messages' = Append(messages, ToolMsg(c.id, "invalid-json", {}))
          /\ log' = Append(Append(lg, Ev("invalid", c.id)), Ev("msg", c.id))
          /\ Advance
          /\ UNCHANGED permVars
     ELSE IF formatToolDetailsThrows(c.name, c.args)
     THEN /\ Throw
          /\ log' = Append(lg, Ev("throw", c.id))
          /\ UNCHANGED <<messages, permVars>>
     ELSE LET d == requestPermission(Request(c))
              lg2 == Append(lg, Ev("gate", c.id))
          IN
          /\ UNCHANGED permVars
          /\ CASE d = "deny" -> Denied(c, Append(lg2, Ev("false", c.id)))
               [] d = "allow" -> /\ Approved(c, Append(lg2, Ev("true", c.id)))
                                 /\ UNCHANGED messages
               [] d = "prompt" -> /\ pc' = "prompt"
                                  /\ log' = Append(lg2, Ev("prompt", c.id))
                                  /\ UNCHANGED <<messages, calls, idx>>
  /\ UNCHANGED <<pmVars, session, store, useStreaming,
                 inputs, nextId>>
  /\ Counted

\* interactiveSelect resolves: promptUser and requestPermission return
PromptAnswer(choice) ==
  /\ UNCHANGED <<restVars, streamVars, toolVars, tokenUsage, titles>>
  /\ pc = "prompt"
  /\ LET c == calls[idx]
         p == promptUser(Request(c), choice)
     IN
     /\ sessionApproved' = p.sessionApproved
     /\ alwaysDeny' = p.alwaysDeny
     /\ IF p.ret
        THEN /\ Approved(c, Append(log, Ev("true", c.id)))
             /\ UNCHANGED messages
        ELSE Denied(c, Append(log, Ev("false", c.id)))
  /\ UNCHANGED <<autoApprove, pmVars, session, store, useStreaming, inputs, nextId>>
  /\ Counted

\* executeTool resolves: the tool message is pushed
ToolReturns(env) ==
  /\ UNCHANGED <<restVars, streamVars, toolVars, tokenUsage, titles>>
  /\ pc = "exec"
  /\ LET c == calls[idx]
         result == executeTool(c.name, c.args, env)
     IN
     IF result = Thrown
     THEN /\ Throw
          /\ log' = Append(log, Ev("throw", c.id))
          /\ UNCHANGED messages
     ELSE /\ messages' = Append(messages, ToolMsg(c.id, result.kind, result.carries))
          /\ log' = Append(log, Ev("msg", c.id))
          /\ Advance
  /\ UNCHANGED <<permVars, pmVars, session, store, useStreaming, inputs, nextId>>
  /\ Counted

\* /clear : keep messages[0], a new session record, the counters at zero
Clear ==
  /\ UNCHANGED <<restVars, streamVars, toolVars>>
  /\ pc = "idle"
  /\ inputs' = inputs + 1
  /\ messages' = <<IF messages = <<>> THEN Undefined ELSE messages[1]>>
  /\ session' = Len(store) + 1
  /\ store' = Append(store, <<>>)
  /\ titles' = Append(titles, NewConversation)
  /\ tokenUsage' = ZeroUsage
  /\ UNCHANGED <<permVars, pmVars, useStreaming, pc, calls,
                 idx, nextId, log>>
  /\ Counted

\* /c
ClearAlias ==
  /\ UNCHANGED <<restVars, streamVars, toolVars>>
  /\ pc = "idle"
  /\ inputs' = inputs + 1
  /\ messages' = <<IF messages = <<>> THEN Undefined ELSE messages[1]>>
  /\ session' = Len(store) + 1
  /\ store' = Append(store, <<>>)
  /\ titles' = Append(titles, NewConversation)
  /\ UNCHANGED tokenUsage
  /\ UNCHANGED <<permVars, pmVars, useStreaming, pc, calls,
                 idx, nextId, log>>
  /\ Counted

\* /compact
Compact ==
  /\ UNCHANGED <<restVars, streamVars, toolVars, tokenUsage, titles>>
  /\ pc = "idle"
  /\ inputs' = inputs + 1
  /\ messages' = handleCompact(messages)
  /\ UNCHANGED <<permVars, pmVars, session, store, useStreaming, pc, calls, idx, nextId, log>>
  /\ Counted

\* /resume <id>, or the picker of /resume: the saved document is loaded
Resume(id) ==
  /\ UNCHANGED <<restVars, streamVars, toolVars, tokenUsage, titles>>
  /\ pc = "idle"
  /\ inputs' = inputs + 1
  /\ id \in DOMAIN store
  /\ session' = id
  /\ messages' = JSON_parse(store[id])
  /\ UNCHANGED <<permVars, pmVars, store, useStreaming, pc,
                 calls, idx, nextId, log>>
  /\ Counted

\* /history : a selection other than the current session switches to it
HistorySelect(id) ==
  /\ UNCHANGED <<restVars, streamVars, toolVars, tokenUsage, titles>>
  /\ pc = "idle"
  /\ inputs' = inputs + 1
  /\ id \in DOMAIN store
  /\ id # session
  /\ session' = id
  /\ messages' = JSON_parse(store[id])
  /\ UNCHANGED <<permVars, pmVars, store, useStreaming, pc,
                 calls, idx, nextId, log>>
  /\ Counted

\* /save; an exception of saveSession leaves handleCommand and loop()
Save ==
  /\ UNCHANGED <<restVars, streamVars, toolVars, tokenUsage>>
  /\ pc = "idle"
  /\ inputs' = inputs + 1
  /\ SaveSession(messages)
  /\ pc' = IF saveThrows(titles[session], messages) THEN "crashed" ELSE pc
  /\ UNCHANGED <<permVars, pmVars, messages, session, useStreaming, calls, idx, nextId, log>>
  /\ Counted

\* /rename <name>: the title is set and the session is saved
Rename(name) ==
  /\ UNCHANGED <<restVars, streamVars, toolVars, tokenUsage>>
  /\ pc = "idle"
  /\ inputs' = inputs + 1
  /\ IF name = <<>>
     THEN UNCHANGED <<store, titles, pc>>
     ELSE IF saveThrows(name, messages)
     THEN pc' = "crashed" /\ UNCHANGED <<store, titles>>
     ELSE /\ store' = Saved(messages)
          /\ titles' = [titles EXCEPT ![session] = savedTitle(name, messages)]
          /\ UNCHANGED pc
  /\ UNCHANGED <<permVars, pmVars, messages, session, useStreaming, calls, idx, nextId, log>>
  /\ Counted

\* /stream
ToggleStream ==
  /\ UNCHANGED <<restVars, streamVars, toolVars, tokenUsage, titles>>
  /\ pc = "idle"
  /\ inputs' = inputs + 1
  /\ useStreaming' = ~useStreaming
  /\ UNCHANGED <<permVars, pmVars, messages, session, store, pc, calls, idx, nextId, log>>
  /\ Counted

\* the replies of S whose ids stay within max
Within(S, max) == {cs \in S : nextId + Len(cs) - 1 <= max}

Next ==
  \/ \E size \in InputSizes : inputs < MaxInputs /\ ProcessMessage(size)
  \/ \E cs \in Within(Replies(nextId), MaxIds) : Reply(cs)
  \/ \E cs \in Within(Partials(nextId), MaxIds) : Escape(cs)
  \/ RequestFails
  \/ ExecuteToolCall
  \/ \E choice \in Choices : PromptAnswer(choice)
  \/ \E env \in ToolEnvs : ToolReturns(env)
  \/ inputs < MaxInputs /\ Len(store) < MaxSessions /\ Clear
  \/ inputs < MaxInputs /\ Compact
  \/ \E id \in 1..MaxSessions : inputs < MaxInputs /\ Resume(id)
  \/ \E id \in 1..MaxSessions : inputs < MaxInputs /\ HistorySelect(id)
  \/ inputs < MaxInputs /\ Save
  \/ inputs < MaxInputs /\ ToggleStream

Spec == Init /\ [][Next]_vars

\* rl.on('SIGINT'): with an abortController (set for the whole of a streamed
\* turn chain) abort() is called, and chatStream, which is given no signal,
\* reads on; without one the session is saved and the process exits
Sigint ==
  /\ UNCHANGED <<restVars, streamVars, toolVars, tokenUsage>>
  /\ pc \notin {"exited", "crashed"}
  /\ IF pc # "idle" /\ useStreaming
     THEN /\ sigint' = TRUE
          /\ UNCHANGED <<pc, store, titles, outstanding, executing>>
     ELSE /\ SaveSession(messages)
          /\ pc' = "exited"
          /\ outstanding' = 0
          /\ executing' = 0
          /\ UNCHANGED sigint
  /\ UNCHANGED <<permVars, pmVars, messages, session, useStreaming, calls, idx,
                 inputs, nextId, log>>

\* the controller with the signal handler
NextLoop ==
  \/ Next
  \/ Sigint

SpecLoop == Init /\ [][NextLoop]_vars

\* A run with a long chain of turns: the service asks for one git command
\* per turn, the user allows, the command succeeds.
LongReplies(first) == {<<>>, <<ToolCall(first, <<"Bash", Obj(GitStatus)>>)>>}

NextLong ==
  \/ inputs < LongInputs /\ ProcessMessage("input")
  \/ \E cs \in Within(LongReplies(nextId), LongIds) : Reply(cs)
  \/ ExecuteToolCall
  \/ \E choice \in {"once", "session"} : PromptAnswer(choice)
  \/ ToolReturns("ok")
  \/ inputs < LongInputs /\ Compact

SpecLong == Init /\ [][NextLong]_vars

\* A run of session commands: text replies only, with and without usage,
\* and the commands that touch the session record.
MaxSessionInputs == 5
MaxSessionRecords == 3
Names == {<<>>, <<"x">>}

NextSession ==
  \/ \E size \in InputSizes : inputs < MaxSessionInputs /\ ProcessMessage(size)
  \/ \E usage \in Usages : Respond(<<>>, usage)
  \/ RequestFails
  \/ inputs < MaxSessionInputs /\ Len(store) < MaxSessionRecords /\ Clear
  \/ inputs < MaxSessionInputs /\ Len(store) < MaxSessionRecords /\ ClearAlias
  \/ inputs < MaxSessionInputs /\ Compact
  \/ \E id \in 1..MaxSessionRecords : inputs < MaxSessionInputs /\ Resume(id)
  \/ inputs < MaxSessionInputs /\ Save
  \/ \E name \in Names : inputs < MaxSessionInputs /\ Rename(name)
  \/ inputs < MaxSessionInputs /\ ToggleStream

SpecSession == Init /\ [][NextSession]_vars


(* ------------- getStreamingResponse: tool-call accumulation ------------ *)
\* one entry of delta.tool_calls: id ("" when absent), function.name and
\* function.arguments ("" when absent)
Tc(id, name, arguments) == [id |-> id, name |-> name, arguments |-> arguments]
Fragments == {<<>>, <<"{">>, <<"}">>}
TcDeltas ==
  {Tc(id, IF id = "" THEN "" ELSE "Bash", a) : id \in {"", "c1", "c2"}, a \in Fragments}
\* delta.tool_calls of one chunk: one entry, or two entries
StreamChunks ==
  {<<tc>> : tc \in TcDeltas} \cup
  {<<t1, t2>> : t1 \in {Tc("c1", "Bash", <<"{">>), Tc("", "", <<"}">>), Tc("c2", "Bash", <<>>)},
                t2 \in {Tc("c1", "Bash", <<"{">>), Tc("", "", <<"}">>), Tc("c2", "Bash", <<>>)}}


\* a stream end that forgets the pending call
flush_never(st) == st.toolCalls

\* "Push last tool call if exists"
flush(st) ==
  IF st.current # <<>> /\ st.current[1].id # ""
  THEN Append(st.toolCalls, st.current[1])
  ELSE st.toolCalls


\* the fragment put in front of the buffer instead of behind it
appendArguments_inFront(buffer, fragment) == fragment \o buffer

\* currentToolCall.function.arguments += tc.function.arguments
appendArguments(buffer, fragment) == buffer \o fragment

\* the body of "for (const tc of delta.tool_calls)"
handleToolCallDelta(st, tc) ==
  IF tc.id # ""
  THEN [toolCalls |-> flush(st),
        current |-> <<Tc(tc.id, tc.name, tc.arguments)>>]
  ELSE IF st.current # <<>> /\ tc.arguments # <<>>
  THEN [toolCalls |-> st.toolCalls,
        current |-> <<[st.current[1] EXCEPT
                        !.arguments = appendArguments(@, tc.arguments)]>>]
  ELSE st
RECURSIVE handleDelta(_, _)
handleDelta(st, tcs) ==
  IF tcs = <<>> THEN st
  ELSE handleDelta(handleToolCallDelta(st, Head(tcs)), Tail(tcs))

StreamInit ==
  /\ ToolsIdle
  /\ RestIdle
  /\ ModelIdle
  /\ chunks = <<>>
  /\ toolCalls = <<>>
  /\ currentToolCall = <<>>
  /\ aborted = FALSE
  /\ reading = TRUE
  /\ autoApprove = {}
  /\ alwaysDeny = <<>>
  /\ sessionApproved = {}
  /\ req = NoRequest
  /\ gate = "idle"
  /\ ret = FALSE
  /\ prompts = 0
  /\ answer = "none"
  /\ requests = 0
  /\ messages = <<>>
  /\ session = 0
  /\ store = <<>>
  /\ useStreaming = TRUE
  /\ pc = "none"
  /\ calls = <<>>
  /\ idx = 0
  /\ inputs = 0
  /\ nextId = 1
  /\ log = <<>>
  /\ tokenUsage = ZeroUsage
  /\ titles = <<>>

\* the loop is left: the pending call is pushed
LoopEnds ==
  /\ toolCalls' = flush([toolCalls |-> toolCalls, current |-> currentToolCall])
  /\ reading' = FALSE
  /\ UNCHANGED <<currentToolCall, aborted>>

\* the stream yields a chunk: break when aborted, else its deltas are handled
ReadChunk(c) ==
  /\ reading
  /\ IF aborted
     THEN LoopEnds /\ UNCHANGED chunks
     ELSE LET st == handleDelta([toolCalls |-> toolCalls,
                                 current |-> currentToolCall], c)
          IN  /\ chunks' = Append(chunks, c)
              /\ toolCalls' = st.toolCalls
              /\ currentToolCall' = st.current
              /\ UNCHANGED <<aborted, reading>>
  /\ UNCHANGED <<permVars, pmVars, chatVars, toolVars, turnVars, restVars>>

\* the stream is done
StreamEnd ==
  /\ reading
  /\ LoopEnds
  /\ UNCHANGED <<chunks, permVars, pmVars, chatVars, toolVars, turnVars, restVars>>

\* onKeypress: the Esc key
Esc ==
  /\ reading
  /\ ~aborted
  /\ aborted' = TRUE
  /\ UNCHANGED <<chunks, toolCalls, currentToolCall, reading,
                 permVars, pmVars, chatVars, toolVars, turnVars, restVars>>

NextStream ==
  \/ \E c \in StreamChunks : Len(chunks) < MaxChunks /\ ReadChunk(c)
  \/ StreamEnd
  \/ Esc

SpecStream == StreamInit /\ [][NextStream]_vars


(* ======================= properties: stream accumulation =============== *)
\* the deltas of the chunks read, in arrival order
RECURSIVE Flat(_)
Flat(cs) == IF cs = <<>> THEN <<>> ELSE Head(cs) \o Flat(Tail(cs))
\* the argument fragments of deltas, one after another
RECURSIVE ConcatArgs(_)
ConcatArgs(d) == IF d = <<>> THEN <<>> ELSE Head(d).arguments \o ConcatArgs(Tail(d))
StreamComplete == ~reading /\ ~aborted
\* one delta with an id, then deltas without
OneIdThenFragments(d) ==
  /\ d # <<>>
  /\ d[1].id # ""
  /\ \A i \in 2..Len(d) : d[i].id = ""

\* C13: after a stream of one delta with an id followed by deltas without
\* an id, there is one completed tool call, and its argument text is the
\* fragments of the deltas concatenated in arrival order.
C13_FragmentsConcatenatedInOrder ==
  (StreamComplete /\ OneIdThenFragments(Flat(chunks))) =>
    toolCalls = <<Tc(Flat(chunks)[1].id, Flat(chunks)[1].name,
                     ConcatArgs(Flat(chunks)))>>

\* C13 witness: a complete stream of an id and two different fragments
C13_Witness ==
  /\ StreamComplete
  /\ OneIdThenFragments(Flat(chunks))
  /\ Len(Flat(chunks)) = 3
  /\ Flat(chunks)[2].arguments = <<"{">>
  /\ Flat(chunks)[3].arguments = <<"}">>
  /\ toolCalls # <<>>

\* the places of the deltas that carry an id
IdPlaces(d) == {i \in 1..Len(d) : d[i].id # ""}
\* the deltas after place p and before the next delta that carries an id
Following(d, p) ==
  LET later == {q \in IdPlaces(d) : q > p}
      q == IF later = {} THEN Len(d) + 1
           ELSE CHOOSE x \in later : \A y \in later : x <= y
  IN  SubSeq(d, p + 1, q - 1)
\* the k-th least element of a set of numbers
RECURSIVE Kth(_, _)
Kth(S, k) ==
  LET m == CHOOSE x \in S : \A y \in S : x <= y
  IN  IF k = 1 THEN m ELSE Kth(S \ {m}, k - 1)
\* one call per delta with an id; own says whether the buffer of a call
\* starts with the arguments of the delta that carries its id
CallsOf(d, own) ==
  [k \in 1..Cardinality(IdPlaces(d)) |->
     LET p == Kth(IdPlaces(d), k) IN
     Tc(d[p].id, d[p].name,
        (IF own THEN d[p].arguments ELSE <<>>) \o ConcatArgs(Following(d, p)))]

\* C14 as stated: every delta with an id starts a call with an empty
\* argument buffer, so the completed calls are one per id, in arrival order,
\* each holding only the fragments that arrived after its id and before the
\* next id.
C14_NewCallStartsEmpty ==
  StreamComplete => toolCalls = CallsOf(Flat(chunks), FALSE)

\* C14 amended: the buffer of a call starts with the arguments carried by
\* the delta that carries its id; the completed calls are one per id, in
\* arrival order, each holding those arguments followed by the fragments
\* that arrived before the next id.
C14_NewCallStartsWithOwnArguments ==
  StreamComplete => toolCalls = CallsOf(Flat(chunks), TRUE)

\* C14 witness: a call whose id came with arguments and was followed by a
\* fragment is flushed by the id of a second call, which the stream end
\* flushes
C14_Witness ==
  /\ StreamComplete
  /\ Len(toolCalls) = 2
  /\ toolCalls[1].arguments = <<"{", "}">>
  /\ Flat(chunks)[1].arguments = <<"{">>
  /\ Len(Flat(chunks)) = 3


(* ---------------------------- editTool --------------------------------- *)
\* String.prototype.includes
includes(s, p) == \E j \in 1..(Len(s) - Len(p) + 1) : SubSeq(s, j, j + Len(p) - 1) = p
\* String.prototype.indexOf of a text that is included
indexOf(s, p) ==
  CHOOSE j \in 1..(Len(s) - Len(p) + 1) :
    /\ SubSeq(s, j, j + Len(p) - 1) = p
    /\ \A i \in 1..(j - 1) : SubSeq(s, i, i + Len(p) - 1) # p
\* String.prototype.split with a text separator
RECURSIVE splitAt(_, _, _, _)
splitAt(s, sep, start, j) ==
  IF j + Len(sep) - 1 > Len(s) THEN <<SubSeq(s, start, Len(s))>>
  ELSE IF SubSeq(s, j, j + Len(sep) - 1) = sep
  THEN <<SubSeq(s, start, j - 1)>> \o splitAt(s, sep, j + Len(sep), j + Len(sep))
  ELSE splitAt(s, sep, start, j + 1)
split(s, sep) ==
  IF sep = <<>> THEN [i \in 1..Len(s) |-> <<s[i]>>] ELSE splitAt(s, sep, 1, 1)
\* Array.prototype.join
RECURSIVE join(_, _)
join(parts, sep) ==
  IF parts = <<>> THEN <<>>
  ELSE IF Len(parts) = 1 THEN parts[1]
  ELSE parts[1] \o sep \o join(Tail(parts), sep)
\* the replacement text of String.prototype.replace: "$$" is a dollar sign,
\* "$&" the matched text, "$" before an apostrophe the text after the match;
\* every other character stands for itself (the texts here hold no grave
\* accent, the fourth pattern)
RECURSIVE substitution(_, _, _, _)
substitution(r, matched, before, after) ==
  IF r = <<>> THEN <<>>
  ELSE IF r[1] = "$" /\ Len(r) >= 2 /\ r[2] \in {"$", "&", "'"}
  THEN (CASE r[2] = "$" -> <<"$">>
          [] r[2] = "&" -> matched
          [] r[2] = "'" -> after)
       \o substitution(SubSeq(r, 3, Len(r)), matched, before, after)
  ELSE <<r[1]>> \o substitution(Tail(r), matched, before, after)
\* String.prototype.replace with a text pattern: the first occurrence
replace(s, old, new) ==
  IF ~includes(s, old) THEN s
  ELSE LET j == indexOf(s, old)
           before == SubSeq(s, 1, j - 1)
           after == SubSeq(s, j + Len(old), Len(s))
       IN  before \o substitution(new, old, before, after) \o after

\* a ToolResult: success, the kind of its text and the number it names
ToolResult(success, kind, n) == [success |-> success, kind |-> kind, n |-> n]

\* a call of fs or child_process, and the ToolResult of a security denial
Call(op, target) == [op |-> op, target |-> target]
\* an invocation that ends with a rejected promise instead of a ToolResult
Rejected == ToolResult(FALSE, "rejected", 0)
Outcome(f, success, kind, n, cl) ==
  [file |-> f, result |-> ToolResult(success, kind, n), calls |-> cl]

\* editTool on the file f; env says whether the file system accepts the
\* read and the write. The value is the file afterwards, the ToolResult and
\* the fs calls made.
editTool(f, p, env) ==
  LET filePath == resolve(p.file_path)
      rd == <<Call("readFile", filePath)>>
      wr == Append(rd, Call("writeFile", filePath))
  IN
  IF ~f.exists THEN Outcome(f, FALSE, "File not found", 0, rd)
  ELSE IF env = "read-fails" THEN Outcome(f, FALSE, "Error editing file", 0, rd)
  ELSE IF ~includes(f.content, p.old_string)
  THEN Outcome(f, FALSE, "String not found in file", 0, rd)
  ELSE LET parts == split(f.content, p.old_string)
           occurrences == Len(parts) - 1
       IN
       IF ~p.replace_all /\ occurrences > 1
       THEN Outcome(f, FALSE, "Found occurrences", occurrences, rd)
       ELSE LET newContent == IF p.replace_all
                              THEN join(parts, p.new_string)
                              ELSE replace(f.content, p.old_string, p.new_string)
                replacements == IF p.replace_all THEN occurrences ELSE 1
            IN
            IF env = "write-fails"
            THEN Outcome(f, FALSE, "Error editing file", 0, wr)
            ELSE Outcome([exists |-> TRUE, content |-> newContent], TRUE,
                         "File edited successfully", replacements, wr)

(* ---------------------------- readTool, writeTool ---------------------- *)
Nul == "NUL"     \* the character \0
\* path.dirname of an absolute normalized path
dirname(p) ==
  LET segs == Fold(Split(p), <<>>) IN
  IF Len(segs) <= 1 THEN <<"/">> ELSE Join(SubSeq(segs, 1, Len(segs) - 1))

\* readTool on the file f: the verdict of validatePath as well. env is what
\* the file system answers to stat and readFile.
readToolFs(f, p, env) ==
  LET filePath == resolve(p.file_path)
      sec == validatePath(filePath, {})
      st == <<Call("stat", filePath)>>
      rd == Append(st, Call("readFile", filePath))
      out(success, kind, cl) ==
        [security |-> sec] @@ Outcome(f, success, kind, 0, cl)
  IN
  IF p.json = "null"     \* a TypeError inside the try block
  THEN [security |-> NoCheck] @@ Outcome(f, FALSE, "Error reading file", 0, <<>>)
  ELSE IF ~sec.allowed THEN out(FALSE, "Security", <<>>)
  ELSE IF ~f.exists THEN out(FALSE, "File not found", st)
  ELSE IF env = "stat-fails" THEN out(FALSE, "Error reading file", st)
  ELSE IF env = "directory" THEN out(FALSE, "Path is a directory", st)
  ELSE IF env = "too-large" THEN out(FALSE, "File too large", st)
  ELSE IF env = "read-fails" THEN out(FALSE, "Error reading file", rd)
  ELSE IF includes(f.content, <<Nul>>) THEN out(FALSE, "File appears to be binary", rd)
  ELSE out(TRUE, "content", rd)

\* writeTool validating the path only after the write
writeTool_validatesLast(f, p, env) ==
  LET filePath == resolve(p.file_path)
      sec == validatePath(filePath, {})
      wr == <<Call("stat", filePath), Call("mkdir", dirname(filePath)),
              Call("writeFile", filePath)>>
      g == [exists |-> TRUE, content |-> p.content]
  IN
  IF ~sec.allowed
  THEN [security |-> sec] @@ Outcome(g, FALSE, "Security", 0, wr)
  ELSE [security |-> sec] @@ Outcome(g, TRUE, "File written", 0, wr)

\* writeTool on the file f; p.size = "over-limit" stands for a content of
\* more than MAX_CONTENT_SIZE characters
writeTool(f, p, env) ==
  LET filePath == resolve(p.file_path)
      sec == validatePath(filePath, {})
      st == <<Call("stat", filePath)>>
      mk == Append(st, Call("mkdir", dirname(filePath)))
      wr == Append(mk, Call("writeFile", filePath))
      out(g, success, kind, cl) ==
        [security |-> sec] @@ Outcome(g, success, kind, 0, cl)
  IN
  IF p.json = "null"     \* a TypeError inside the try block
  THEN [security |-> NoCheck] @@ Outcome(f, FALSE, "Error writing file", 0, <<>>)
  ELSE IF ~sec.allowed THEN out(f, FALSE, "Security", <<>>)
  ELSE IF p.size = "over-limit" THEN out(f, FALSE, "Content too large", <<>>)
  ELSE IF env = "mkdir-fails" THEN out(f, FALSE, "Error writing file", mk)
  ELSE IF env = "write-fails" THEN out(f, FALSE, "Error writing file", wr)
  ELSE out([exists |-> TRUE, content |-> p.content], TRUE, "File written", wr)

(* ---------------------------- webFetchTool ----------------------------- *)
Letters ==
  {"a", "b", "c", "d", "e", "f", "g", "h", "i", "j", "k", "l", "m", "n", "o",
   "p", "q", "r", "s", "t", "u", "v", "w", "x", "y", "z"}
Malformed == [ok |-> FALSE, protocol |-> <<>>, hostname |-> <<>>]
\* the characters of s before the first one that is in S
RECURSIVE UpTo(_, _)
UpTo(s, S) ==
  IF s = <<>> \/ s[1] \in S THEN <<>> ELSE <<s[1]>> \o UpTo(Tail(s), S)
RECURSIVE DropSlashes(_)
DropSlashes(s) ==
  IF s # <<>> /\ s[1] = "/" THEN DropSlashes(Tail(s)) ELSE s
\* new URL(url): protocol and hostname; an IPv6 hostname keeps its brackets
ParseUrl(u) ==
  LET scheme == UpTo(u, {":"})
  IN
  IF scheme = <<>> \/ Len(scheme) = Len(u) \/ \E i \in 1..Len(scheme) : scheme[i] \notin Letters
  THEN Malformed
  ELSE LET rest == SubSeq(u, Len(scheme) + 2, Len(u))
           special == scheme \in {<<"h", "t", "t", "p">>, <<"h", "t", "t", "p", "s">>, <<"f", "t", "p">>, <<"w", "s">>, <<"w", "s", "s">>, <<"f", "i", "l", "e">>}
           authority == IF special THEN DropSlashes(rest)
                        ELSE IF Len(rest) >= 2 /\ SubSeq(rest, 1, 2) = <<"/", "/">>
                        THEN SubSeq(rest, 3, Len(rest)) ELSE <<>>
           host == IF authority # <<>> /\ authority[1] = "["
                   THEN UpTo(authority, {"]"}) \o <<"]">>
                   ELSE UpTo(authority, {"/", ":", "?", "#"})
       IN  IF special /\ scheme # <<"f", "i", "l", "e">> /\ host = <<>>
           THEN Malformed
           ELSE [ok |-> TRUE, protocol |-> scheme \o <<":">>, hostname |-> host]

HttpProtocols == {<<"h", "t", "t", "p", ":">>, <<"h", "t", "t", "p", "s", ":">>}
blockedHosts ==
  {<<"l", "o", "c", "a", "l", "h", "o", "s", "t">>,
   <<"1", "2", "7", ".", "0", ".", "0", ".", "1">>,
   <<"0", ".", "0", ".", "0", ".", "0">>,
   <<":", ":", "1">>}
Digits(a, b) == OneOf({x \in {"0", "1", "2", "3", "4", "5", "6", "7", "8", "9"} :
                         \E i \in a..b : x = <<"0", "1", "2", "3", "4", "5", "6", "7", "8", "9">>[i + 1]})
\* /^10\./, /^172\.(1[6-9]|2[0-9]|3[0-1])\./, /^192\.168\./, /^169\.254\./
internalPatterns ==
  << Lit(<<"1", "0", ".">>),
     Lit(<<"1", "7", "2", ".", "1">>) \o <<Digits(6, 9), One(".")>>,
     Lit(<<"1", "7", "2", ".", "2">>) \o <<Digits(0, 9), One(".")>>,
     Lit(<<"1", "7", "2", ".", "3">>) \o <<Digits(0, 1), One(".")>>,
     Lit(<<"1", "9", "2", ".", "1", "6", "8", ".">>),
     Lit(<<"1", "6", "9", ".", "2", "5", "4", ".">>) >>

validateUrl(url) ==
  LET parsed == ParseUrl(url) IN
  IF ~parsed.ok THEN Verdict(FALSE, "low", "Invalid URL format", "none")
  ELSE IF parsed.protocol \notin HttpProtocols
  THEN Verdict(FALSE, "medium", "Protocol is not allowed", "none")
  ELSE IF parsed.hostname \in blockedHosts
  THEN Verdict(FALSE, "high", "Localhost access is blocked", "none")
  ELSE IF \E i \in 1..Len(internalPatterns) :
            MatchAt(internalPatterns[i], 1, parsed.hostname, 1)
  THEN Verdict(FALSE, "high", "Internal network access is blocked", "none")
  ELSE Allowed

\* webFetchTool: the ToolResult, and whether fetch(url) was called; env is
\* what the network does
webFetchTool(url, env) ==
  LET parsedUrl == ParseUrl(url) IN
  IF ~parsedUrl.ok
  THEN [fetch |-> FALSE, result |-> ToolResult(FALSE, "Invalid URL", 0)]
  ELSE IF parsedUrl.protocol \notin HttpProtocols
  THEN [fetch |-> FALSE, result |-> ToolResult(FALSE, "Unsupported protocol", 0)]
  ELSE [fetch |-> TRUE,
        result |-> CASE env = "ok" -> ToolResult(TRUE, "Status", 200)
                     [] env = "http-error" -> ToolResult(FALSE, "HTTP", 500)
                     [] OTHER -> ToolResult(FALSE, "Fetch error", 0)]

(* ---------------------------- a run of the tools ------------------------ *)
Contents ==
  {<<>>, <<"a">>, <<"a", "b">>, <<"a", "b", "a">>, <<"a", "a", "a">>,
   <<"a", "b", "a", "b", "a">>, <<"a", Nul>>}
EtcHosts == <<"/", "e", "t", "c", "/", "h", "o", "s", "t", "s">>
UpEtcShadow == <<".", ".", "/", "e", "t", "c", "/", "s", "h", "a", "d", "o", "w">>
DotEnv == <<".", "e", "n", "v">>
EditPaths == {ATxt, EtcHosts}
EditParams ==
  {[NoParams EXCEPT !.tool = "Edit", !.file_path = f, !.old_string = o,
                    !.new_string = n, !.replace_all = r] :
     f \in EditPaths,
     o \in {<<"a">>, <<"a", "b">>, <<"c">>},
     n \in {<<>>, <<"c">>, <<"$", "&">>, <<"$", "$">>, <<"a", "a">>},
     r \in BOOLEAN}
EditEnvs == {"ok", "read-fails", "write-fails"}
FilePaths ==
  {ATxt, EtcShadow, UpEtcShadow, EtcHosts, DotEnv,
   <<"/", "b", "o", "o", "t", "/", "x">>, <<"/", "r", "o", "o", "t", "/", "x">>, <<"/", "p", "r", "o", "c", "/", "1">>, <<"/", "s", "y", "s", "/", "x">>, <<"/", "d", "e", "v", "/", "n", "u", "l", "l">>, <<"/", "d", "e", "v">>, <<"b", "/", ".", ".", "/", ".", ".", "/", "e", "t", "c", "/", "h", "o", "s", "t", "s">>}
\* the parsed arguments are null: JSON.parse('null')
NullParams(tool) == [NoParams EXCEPT !.tool = tool, !.json = "null"]
ReadParams ==
  {[NoParams EXCEPT !.tool = "Read", !.file_path = f] : f \in FilePaths}
    \cup {NullParams("Read")}
ReadEnvs == {"ok", "stat-fails", "directory", "too-large", "read-fails"}
WriteParams ==
  {[NoParams EXCEPT !.tool = "Write", !.file_path = f, !.content = c, !.size = z] :
     f \in FilePaths, c \in {<<"b">>}, z \in {"small", "over-limit"}}
    \cup {NullParams("Write")}
WriteEnvs == {"ok", "mkdir-fails", "write-fails"}
SudoSu == <<"s", "u", "d", "o", " ", "s", "u">>
RmRfRootSudoSu == <<"r", "m", " ", "-", "r", "f", " ", "/", " ", ";", " ", "s", "u", "d", "o", " ", "s", "u">>
EchoRoot == <<"e", "c", "h", "o", " ", ">", "/", "r", "o", "o", "t", "/", "x">>
SuRmRf == <<"s", "u", "d", "o", " ", "s", "u", ";", " ", "r", "m", " ", " ", "-", "R", "F", " ", "~">>
Commands == {GitStatus, Ls, RmRfRoot, SudoSu, RmRfRootSudoSu, EchoRoot, SuRmRf}
\* cwd = "number": a cwd that is not a string
BashParams ==
  {[NoParams EXCEPT !.tool = "Bash", !.command = c] : c \in Commands}
    \cup {[NoParams EXCEPT !.tool = "Bash", !.command = c, !.cwd = "number"] :
             c \in {GitStatus, RmRfRoot}}
    \cup {NullParams("Bash")}
SpawnEnvs == {"spawns", "spawn-error"}
AllowedRootsArgs == {{}, {Cwd}, {<<"/", "e", "t", "c">>}}
Urls ==
  {<<"h", "t", "t", "p", "s", ":", "/", "/", "e", "x", "a", "m", "p", "l", "e", ".", "c", "o", "m", "/">>,
   <<"h", "t", "t", "p", ":", "/", "/", "l", "o", "c", "a", "l", "h", "o", "s", "t", "/">>,
   <<"h", "t", "t", "p", ":", "/", "/", "1", "2", "7", ".", "0", ".", "0", ".", "1", "/">>,
   <<"h", "t", "t", "p", ":", "/", "/", "0", ".", "0", ".", "0", ".", "0", "/">>,
   <<"h", "t", "t", "p", ":", "/", "/", "[", ":", ":", "1", "]", "/">>,
   <<"h", "t", "t", "p", ":", "/", "/", "1", "9", "2", ".", "1", "6", "8", ".", "1", ".", "5", "/">>,
   <<"h", "t", "t", "p", ":", "/", "/", "1", "0", ".", "0", ".", "0", ".", "1", "/", "x">>,
   <<"f", "i", "l", "e", ":", "/", "/", "/", "e", "t", "c", "/", "p", "a", "s", "s", "w", "d">>,
   <<"f", "t", "p", ":", "/", "/", "e", "x", "a", "m", "p", "l", "e", ".", "c", "o", "m", "/">>,
   <<"n", "o", "t", " ", "a", " ", "u", "r", "l">>,
   <<"h", "t", "t", "p", ":", "/", "/">>}
FetchEnvs == {"ok", "http-error", "network-error"}

ToolsInit ==
  /\ StreamIdle
  /\ RestIdle
  /\ ModelIdle
  /\ file \in {NoFile} \cup {[exists |-> TRUE, content |-> c] : c \in Contents}
  /\ toolParams = NoParams
  /\ toolResult = NoResult
  /\ fetched = {}
  /\ ops = 0
  /\ effects = <<>>
  /\ securityCheck = NoCheck
  /\ ProcIdle
  /\ autoApprove = {}
  /\ alwaysDeny = <<>>
  /\ sessionApproved = {}
  /\ req = NoRequest
  /\ gate = "idle"
  /\ ret = FALSE
  /\ prompts = 0
  /\ answer = "none"
  /\ requests = 0
  /\ messages = <<>>
  /\ session = 0
  /\ store = <<>>
  /\ useStreaming = TRUE
  /\ pc = "none"
  /\ calls = <<>>
  /\ idx = 0
  /\ inputs = 0
  /\ nextId = 1
  /\ log = <<>>
  /\ tokenUsage = ZeroUsage
  /\ titles = <<>>

\* a tool is invoked when the previous invocation has returned
Invoke(p) ==
  /\ ~pending
  /\ ops < MaxOps
  /\ ops' = ops + 1
  /\ toolParams' = p

\* executeTool('Edit', p)
Edit(p, env) ==
  /\ Invoke(p)
  /\ LET r == editTool(file, p, env) IN
       /\ file' = r.file
       /\ toolResult' = r.result
       /\ effects' = r.calls
  /\ securityCheck' = NoCheck
  /\ UNCHANGED <<fetched, procVars, permVars, pmVars, chatVars, streamVars, turnVars, restVars>>

\* executeTool('WebFetch', {url})
WebFetch(url, env) ==
  /\ Invoke([NoParams EXCEPT !.tool = "WebFetch", !.url = url])
  /\ LET r == webFetchTool(url, env) IN
       /\ fetched' = IF r.fetch THEN fetched \cup {url} ELSE fetched
       /\ toolResult' = r.result
       /\ effects' = IF r.fetch THEN <<Call("fetch", url)>> ELSE <<>>
  /\ securityCheck' = NoCheck
  /\ UNCHANGED <<file, procVars, permVars, pmVars, chatVars, streamVars, turnVars, restVars>>

\* executeTool('Read', p)
Read(p, env) ==
  /\ Invoke(p)
  /\ LET r == readToolFs(file, p, env) IN
       /\ file' = r.file
       /\ toolResult' = r.result
       /\ effects' = r.calls
       /\ securityCheck' = r.security
  /\ UNCHANGED <<fetched, procVars, permVars, pmVars, chatVars, streamVars, turnVars, restVars>>

\* executeTool('Write', p)
Write(p, env) ==
  /\ Invoke(p)
  /\ LET r == writeTool(file, p, env) IN
       /\ file' = r.file
       /\ toolResult' = r.result
       /\ effects' = r.calls
       /\ securityCheck' = r.security
  /\ UNCHANGED <<fetched, procVars, permVars, pmVars, chatVars, streamVars, turnVars, restVars>>

\* executeTool('Bash', p) up to the end of the promise executor: the
\* command is validated, bash is spawned and the timeout is armed. env says
\* whether the spawn succeeds.
Bash(p, env) ==
  /\ Invoke(p)
  /\ securityCheck' = IF p.json = "null" THEN NoCheck ELSE validateCommand(p.command)
  /\ IF p.json = "null"         \* params.timeout: a TypeError
     THEN /\ toolResult' = Rejected
          /\ effects' = <<>>
          /\ UNCHANGED procVars
     ELSE IF ~securityCheck'.allowed
     THEN /\ toolResult' = ToolResult(FALSE, "Security", 0)
          /\ effects' = <<>>
          /\ UNCHANGED procVars
     ELSE IF p.cwd = "number"    \* spawn throws in the promise executor
     THEN /\ toolResult' = Rejected
          /\ effects' = <<Call("spawn", p.command)>>
          /\ UNCHANGED procVars
     ELSE /\ toolResult' = NoResult
          /\ effects' = <<Call("spawn", p.command)>>
          /\ child' = IF env = "spawns" THEN "running" ELSE "unspawned"
          /\ descendants' = FALSE
          /\ killed' = FALSE
          /\ timer' = "armed"
          /\ signals' = <<>>
          /\ pending' = TRUE
  /\ UNCHANGED <<file, fetched, permVars, pmVars, chatVars, streamVars, turnVars, restVars>>

\* validatePath(filePath, allowedRoots), called by itself
ValidatePath(filePath, roots) ==
  /\ Invoke([NoParams EXCEPT !.tool = "validatePath", !.file_path = filePath,
                             !.allowedRoots = roots])
  /\ securityCheck' = validatePath(filePath, roots)
  /\ toolResult' = NoResult
  /\ effects' = <<>>
  /\ UNCHANGED <<file, fetched, procVars, permVars, pmVars, chatVars, streamVars, turnVars, restVars>>

Unchanged_outside_process ==
  UNCHANGED <<file, toolParams, fetched, ops, effects, securityCheck,
              permVars, pmVars, chatVars, streamVars, turnVars, restVars>>

\* clearTimeout(timer): the 5 s timer is not the one that is cleared
clearTimeout(t) == IF t = "armed" THEN "off" ELSE t

\* child.on('error'): the spawn failed
ChildError ==
  /\ pending /\ child = "unspawned"
  /\ timer' = clearTimeout(timer)
  /\ toolResult' = ToolResult(FALSE, "Failed to execute command", 0)
  /\ pending' = FALSE
  /\ child' = "none"
  /\ UNCHANGED <<descendants, killed, signals>>
  /\ Unchanged_outside_process

\* bash starts a process that inherits its stdout and stderr
ChildForks ==
  /\ child = "running" /\ ~descendants
  /\ descendants' = TRUE
  /\ UNCHANGED <<child, killed, timer, signals, pending, toolResult>>
  /\ Unchanged_outside_process

\* the processes started by bash end
DescendantsEnd ==
  /\ descendants
  /\ descendants' = FALSE
  /\ UNCHANGED <<child, killed, timer, signals, pending, toolResult>>
  /\ Unchanged_outside_process

\* bash exits by itself with the given code
ChildExits(code) ==
  /\ child = "running"
  /\ child' = IF code = 0 THEN "exit-0" ELSE "exit-1"
  /\ UNCHANGED <<descendants, killed, timer, signals, pending, toolResult>>
  /\ Unchanged_outside_process

\* bash is ended by a signal it was sent
Terminated ==
  /\ child = "running" /\ signals # <<>>
  /\ child' = "signalled"
  /\ UNCHANGED <<descendants, killed, timer, signals, pending, toolResult>>
  /\ Unchanged_outside_process

\* child.kill(sig): delivered when the child still runs
kill(sig) == IF child = "running" THEN Append(signals, sig) ELSE signals

\* the timeout handler
TimerFires ==
  /\ timer = "armed"
  /\ killed' = TRUE
  /\ signals' = kill("SIGTERM")
  /\ timer' = "grace"
  /\ UNCHANGED <<child, descendants, pending, toolResult>>
  /\ Unchanged_outside_process

\* the handler of the 5 s timer
GraceFires ==
  /\ timer = "grace"
  /\ signals' = kill("SIGKILL")
  /\ timer' = "done"
  /\ UNCHANGED <<child, descendants, killed, pending, toolResult>>
  /\ Unchanged_outside_process

\* child.on('close'): bash has ended and its stdio streams are closed
Close ==
  /\ pending /\ child \in {"exit-0", "exit-1", "signalled"} /\ ~descendants
  /\ timer' = clearTimeout(timer)
  /\ toolResult' = IF killed THEN ToolResult(FALSE, "Command timed out", 0)
                   ELSE IF child = "exit-0" THEN ToolResult(TRUE, "output", 0)
                   ELSE ToolResult(FALSE, "Command exited", 0)
  /\ pending' = FALSE
  /\ child' = "none"
  /\ UNCHANGED <<descendants, killed, signals>>
  /\ Unchanged_outside_process

NextTools ==
  \/ \E p \in EditParams : \E env \in EditEnvs : Edit(p, env)
  \/ \E url \in Urls : \E env \in FetchEnvs : WebFetch(url, env)

SpecTools == ToolsInit /\ [][NextTools]_vars

\* a run of the tools that call SecurityValidator
NextFiles ==
  \/ \E p \in ReadParams : \E env \in ReadEnvs : Read(p, env)
  \/ \E p \in WriteParams : \E env \in WriteEnvs : Write(p, env)
  \/ \E p \in BashParams : \E env \in SpawnEnvs : Bash(p, env)
  \/ \E f \in FilePaths : \E roots \in AllowedRootsArgs : ValidatePath(f, roots)
  \/ ChildError
  \/ ChildForks
  \/ DescendantsEnd
  \/ \E code \in {0, 1} : ChildExits(code)
  \/ Terminated
  \/ TimerFires
  \/ GraceFires
  \/ Close

SpecFiles == ToolsInit /\ [][NextFiles]_vars

\* a run of bashTool alone. The event loop runs the handlers of timers that
\* are due and of events that were emitted, and a process that is sent
\* SIGKILL ends; nothing makes the command, or the processes it started, end
\* by themselves.
NextBash ==
  \/ \E p \in BashParams : \E env \in SpawnEnvs : Bash(p, env)
  \/ ChildError
  \/ ChildForks
  \/ DescendantsEnd
  \/ \E code \in {0, 1} : ChildExits(code)
  \/ Terminated
  \/ TimerFires
  \/ GraceFires
  \/ Close
EventLoop ==
  /\ WF_vars(TimerFires)
  /\ WF_vars(GraceFires)
  /\ WF_vars(Close)
  /\ WF_vars(ChildError)
  /\ WF_vars(Terminated /\ Includes(signals, "SIGKILL"))

SpecBash == ToolsInit /\ [][NextBash]_vars /\ EventLoop

(* ======================= properties: PermissionManager ================== *)
\* a step in which requestPermission is called (for the request req')
IsRequest == requests' = requests + 1
\* a step in which the prompt is answered
IsAnswer == gate = "prompt" /\ gate' = "ret"
NoPromptReturn(v) == gate' = "ret" /\ ret' = v /\ prompts' = 0

\* C2: once a tool was blocked by a deny-and-block answer it stays in
\* alwaysDeny, and every later requestPermission for that tool returns false
\* without a prompt, whatever the details and whatever autoApprove and
\* sessionApproved hold.
C2_BlockedToolIsDenied ==
  [][ /\ (IsAnswer /\ answer' = "block") => Includes(alwaysDeny', req.tool)
      /\ \A t \in PMTools : Includes(alwaysDeny, t) => Includes(alwaysDeny', t)
      /\ (IsRequest /\ Includes(alwaysDeny, req'.tool)) => NoPromptReturn(FALSE)
    ]_vars

\* C2 witness: a blocked tool whose scope key is session-approved was
\* requested again and denied without a prompt
C2_Witness ==
  /\ gate = "ret" /\ ret = FALSE /\ prompts = 0 /\ requests = 3
  /\ Includes(alwaysDeny, req.tool)
  /\ getSessionKey(req.tool, req.details) \in sessionApproved

\* the command classes of getSessionKey, stated on the command text
Classes == {"git", "npm", "ls"}
ClassKey(K) == CASE K = "git" -> "Bash:git" [] K = "npm" -> "Bash:npm"
                 [] K = "ls" -> "Bash:ls"
InClass(r, K) ==
  /\ r.tool = "Bash" /\ r.details.json = "obj" /\ r.details.has
  /\ CASE K = "git" -> StartsWith(r.details.val, <<"g","i","t"," ">>)
       [] K = "npm" -> StartsWith(r.details.val, <<"n","p","m"," ">>)
       [] K = "ls" -> \/ StartsWith(r.details.val, <<"l","s"," ">>)
                      \/ r.details.val = <<"l","s">>
BashRequests == {r \in PMRequests : r.tool = "Bash"}
\* the user has answered allow-session for a command of class K
ClassApproved(K) == ClassKey(K) \in sessionApproved
\* an allow-session answer for a command of class K
ApprovesClass(K) == IsAnswer /\ answer' = "session" /\ InClass(req, K)

\* C3 as stated: after an allow-session answer for a command of class K every
\* later Bash command of class K is approved without a prompt, and the answer
\* changes the decision of no Bash command outside K.
C3_ClassApprovalAlwaysApproves ==
  [][ \A K \in Classes :
        /\ ApprovesClass(K) => ClassApproved(K)'
        /\ ClassApproved(K) => ClassApproved(K)'
        /\ (IsRequest /\ InClass(req', K) /\ ClassApproved(K))
             => NoPromptReturn(TRUE)
        /\ ApprovesClass(K) =>
             \A r \in BashRequests :
               ~InClass(r, K) => requestPermission(r)' = requestPermission(r)
    ]_vars

\* C3 amended: the same, except that a class command is denied, without a
\* prompt, once Bash is blocked: the approval of a class approves its
\* commands exactly as long as Bash is not in alwaysDeny.
C3_ClassApprovalUnlessBlocked ==
  [][ \A K \in Classes :
        /\ ApprovesClass(K) => ClassApproved(K)'
        /\ ClassApproved(K) => ClassApproved(K)'
        /\ (IsRequest /\ InClass(req', K) /\ ClassApproved(K))
             => NoPromptReturn(~Includes(alwaysDeny, "Bash"))
        /\ ApprovesClass(K) =>
             \A r \in BashRequests :
               ~InClass(r, K) => requestPermission(r)' = requestPermission(r)
    ]_vars

\* C3 witness: git was approved for the session, a different git command was
\* then approved without a prompt, and a command outside the class prompts
C3_Witness ==
  /\ ClassApproved("git") /\ "Bash" \notin sessionApproved
  /\ gate = "ret" /\ ret /\ prompts = 0 /\ requests = 2
  /\ req.tool = "Bash" /\ req.details = Obj(GitPush)
  /\ requestPermission([req EXCEPT !.details = Obj(Make)]) = "prompt"
  /\ requestPermission([req EXCEPT !.details = Obj(Gitk)]) = "prompt"

\* C4: requestPermission decides in the order alwaysDeny, autoApprove (tool or
\* "*"), sessionApproved (scope key), blanket read approval, prompt; only the
\* last case prompts, once, and the answer of the prompt is what is returned.
C4_DecisionOrder ==
  [][ /\ IsRequest =>
           LET r == req' IN
           IF Includes(alwaysDeny, r.tool) THEN NoPromptReturn(FALSE)
           ELSE IF r.tool \in autoApprove \/ "*" \in autoApprove
                THEN NoPromptReturn(TRUE)
           ELSE IF getSessionKey(r.tool, r.details) \in sessionApproved
                THEN NoPromptReturn(TRUE)
           ELSE IF r.riskLevel = "read" /\ "read" \in autoApprove
                THEN NoPromptReturn(TRUE)
           ELSE gate' = "prompt" /\ prompts' = 1
      /\ IsAnswer =>
           /\ prompts' = prompts
           /\ ret' = (answer' \in {"once", "session"})
    ]_vars

\* C4 witness: a read-level request of a tool that is neither blocked,
\* auto-approved nor session-approved was allowed by the blanket read approval
C4_Witness ==
  /\ gate = "ret" /\ ret /\ prompts = 0 /\ requests > 0
  /\ req.riskLevel = "read" /\ "read" \in autoApprove
  /\ ~Includes(alwaysDeny, req.tool)
  /\ req.tool \notin autoApprove /\ "*" \notin autoApprove
  /\ getSessionKey(req.tool, req.details) \notin sessionApproved
  /\ alwaysDeny # <<>> /\ sessionApproved # {}


(* ======================= properties: GrokChat ========================== *)
CountIn(lg, e, id) == Cardinality({k \in 1..Len(lg) : lg[k] = Ev(e, id)})
Count(e, id) == CountIn(log, e, id)
Before(e1, e2, id, k) ==    \* e1 then e2 were logged for id before place k
  \E g \in 1..(k - 1) : \E t \in 1..(k - 1) :
    g < t /\ log[g] = Ev(e1, id) /\ log[t] = Ev(e2, id)
IsPrefix(a, b) == Len(a) <= Len(b) /\ SubSeq(b, 1, Len(a)) = a
Ids(cs) == [i \in 1..Len(cs) |-> cs[i].id]
Processing == pc \in {"call", "prompt", "exec"}
\* the controller goes on after the tool message of calls[idx]
Continues ==
  IF idx < Len(calls) THEN pc' = "call" /\ idx' = idx + 1 /\ calls' = calls
  ELSE pc' = "turn"
ToolMsgsFor(msgs, id) ==
  Cardinality({i \in 1..Len(msgs) : msgs[i].role = "tool" /\ msgs[i].id = id})

\* C1: executeTool runs for a tool call only after requestPermission was
\* called for that call, exactly once, and returned true; the gate is never
\* called twice for a call, and a call answered by a tool message was either
\* unparsable (no gate call) or went through the gate exactly once.
C1_ExecuteOnlyAfterApproval ==
  /\ \A k \in 1..Len(log) :
       LET id == log[k].id IN
       /\ log[k].e = "exec" =>
            /\ Before("gate", "true", id, k)
            /\ Count("gate", id) = 1
            /\ Count("false", id) = 0
            /\ Count("exec", id) = 1
       /\ log[k].e = "gate" => Count("gate", id) = 1
       /\ log[k].e = "msg" =>
            \/ Count("invalid", id) = 1 /\ Count("gate", id) = 0
            \/ Count("invalid", id) = 0 /\ Count("gate", id) = 1
  /\ pc = "exec" => log # <<>> /\ log[Len(log)] = Ev("exec", calls[idx].id)

\* C1 witness: a tool is running for a call that the user approved at the prompt
C1_Witness ==
  /\ pc = "exec"
  /\ Count("prompt", calls[idx].id) = 1
  /\ Count("true", calls[idx].id) = 1

\* C5: a tool named in the configuration's autoApprove array is never the
\* subject of a permission prompt.
C5_ConfiguredToolsNeverPrompt ==
  pc = "prompt" => calls[idx].name \notin configAutoApprove

\* C6: when the controller switches to another session record, the new
\* session starts without the approvals and blocks of the previous one.
C6_PermissionStatePerSession ==
  [][session' # session => (sessionApproved' = {} /\ alwaysDeny' = <<>>)]_vars

\* the tool messages that directly follow the message at place p
RECURSIVE ToolRun(_, _)
ToolRun(msgs, p) ==
  IF p + 1 <= Len(msgs) /\ msgs[p + 1].role = "tool"
  THEN <<msgs[p + 1].id>> \o ToolRun(msgs, p + 1)
  ELSE <<>>
LastAssistant ==
  CHOOSE p \in 1..Len(messages) :
    /\ messages[p].role = "assistant"
    /\ \A q \in (p + 1)..Len(messages) : messages[q].role # "assistant"
EventIds(e) ==
  LET evs == SelectSeq(log, LAMBDA x : x.e = e) IN [i \in 1..Len(evs) |-> evs[i].id]
Place(cs, id) == CHOOSE i \in 1..Len(cs) : cs[i].id = id

\* C7: the calls of an assistant message are taken one after another in the
\* order of the message: the calls started are a prefix of the message's
\* calls, nothing is done for a call before the tool message of the call
\* before it, and the tool messages follow the assistant message in the
\* order of its calls.
C7_SequentialInOrder ==
  /\ \A p \in 1..Len(messages) :
       messages[p].role = "assistant" =>
         IsPrefix(ToolRun(messages, p), Ids(messages[p].calls))
  /\ Processing =>
       LET cs == messages[LastAssistant].calls
           started == EventIds("start")
           answered == EventIds("msg")
       IN  /\ IsPrefix(started, Ids(cs))
           /\ answered = ToolRun(messages, LastAssistant)
           /\ Len(messages) = LastAssistant + Len(answered)
           /\ Len(started) = IF pc = "call" THEN idx - 1 ELSE idx
           /\ Len(answered) = idx - 1
           /\ calls[idx] = cs[idx]
           /\ \A k1 \in 1..Len(log) : \A k2 \in 1..Len(log) :
                k1 < k2 => Place(cs, log[k1].id) <= Place(cs, log[k2].id)

\* C7 witness: the second call of a message is in process after the first
\* call was answered
C7_Witness ==
  /\ pc = "exec" /\ idx = 2
  /\ messages[Len(messages)].role = "tool"
  /\ messages[Len(messages)].id = calls[1].id

\* C8: every tool message answers a tool call of the nearest assistant
\* message before it.
C8_ToolMessagesAnswerPrecedingAssistant ==
  \A i \in 1..Len(messages) :
    messages[i].role = "tool" =>
      \E p \in 1..(i - 1) :
        /\ messages[p].role = "assistant"
        /\ \A q \in (p + 1)..(i - 1) : messages[q].role # "assistant"
        /\ \E k \in 1..Len(messages[p].calls) :
             messages[p].calls[k].id = messages[i].id

\* C9: a call whose arguments do not parse is answered by exactly one tool
\* message reporting the invalid arguments, without a gate call or a tool
\* execution, and the controller goes on with the next call or the next turn.
C9_InvalidArgumentsAnswered ==
  [][ (pc = "call" /\ calls[idx].args.json = "bad") =>
        LET id == calls[idx].id IN
        /\ messages' = Append(messages, ToolMsg(id, "invalid-json", {}))
        /\ ToolMsgsFor(messages', id) = 1
        /\ CountIn(log', "invalid", id) = 1
        /\ CountIn(log', "gate", id) = 0
        /\ CountIn(log', "prompt", id) = 0
        /\ CountIn(log', "exec", id) = 0
        /\ UNCHANGED permVars
        /\ Continues
    ]_vars

\* C9 witness: after the invalid-arguments message of the first call the
\* second call of the message is in process
C9_Witness ==
  /\ Processing /\ idx = 2
  /\ \E i \in 1..Len(messages) :
       /\ messages[i] = ToolMsg(calls[1].id, "invalid-json", {})
       /\ calls[1].args.json = "bad"

\* the step in which requestPermission returns false for calls[idx]
PermissionDenial ==
  /\ pc \in {"call", "prompt"}
  /\ \E k \in (Len(log) + 1)..Len(log') : log'[k] = Ev("false", calls[idx].id)
\* the verdict of the validator on the call whose tool returns
VerdictOf(c) ==
  CASE c.name = "Bash" /\ c.args.has -> validateCommand(c.args.val)
    [] c.name = "Read" /\ c.args.has -> validatePath(resolve(c.args.val), {})
    [] OTHER -> Allowed
SecurityDenial == pc = "exec" /\ ~VerdictOf(calls[idx]).allowed
\* the step appends one tool message for calls[idx] of this kind and goes on
DenialMessage(kind) ==
  /\ Len(messages') = Len(messages) + 1
  /\ SubSeq(messages', 1, Len(messages)) = messages
  /\ messages'[Len(messages')].role = "tool"
  /\ messages'[Len(messages')].id = calls[idx].id
  /\ messages'[Len(messages')].content.kind = kind
  /\ ToolMsgsFor(messages', calls[idx].id) = 1
  /\ Continues

\* C10 as stated: a denial is answered by one tool message and processing
\* goes on; the message of a security denial carries the reason, the
\* severity and (when the verdict has one) the suggestion.
C10_DenialCarriesReasonSeveritySuggestion ==
  [][ /\ PermissionDenial => DenialMessage("permission-denied")
      /\ SecurityDenial =>
           /\ DenialMessage("security")
           /\ {"reason", "severity"}
                \subseteq messages'[Len(messages')].content.carries
           /\ VerdictOf(calls[idx]).suggestion # "none" =>
                "suggestion" \in messages'[Len(messages')].content.carries
    ]_vars

\* C10 amended: the message of a security denial carries the reason, never
\* the severity, and the suggestion only for a Bash command whose verdict
\* has one.
C10_DenialCarriesReason ==
  [][ /\ PermissionDenial => DenialMessage("permission-denied")
      /\ SecurityDenial =>
           /\ DenialMessage("security")
           /\ messages'[Len(messages')].content.carries =
                {"reason"} \cup
                (IF /\ calls[idx].name = "Bash"
                    /\ VerdictOf(calls[idx]).suggestion # "none"
                 THEN {"suggestion"} ELSE {})
    ]_vars

\* C10 witness: a security denial of the first call and a permission denial
\* of the second were answered, and the next turn is requested
C10_Witness ==
  /\ pc = "turn"
  /\ \E i \in 1..(Len(messages) - 1) :
       /\ messages[i].content.kind = "security"
       /\ messages[i + 1].content.kind = "permission-denied"

(* ======================= properties: turns and compaction ============== *)
\* the assistant messages since the last user message
ChainDepth(msgs) ==
  Cardinality({i \in 1..Len(msgs) :
                 /\ msgs[i].role = "assistant"
                 /\ \A j \in i..Len(msgs) : msgs[j].role # "user"})

\* C11: the controller cuts the chain of automatic turns by itself: when
\* the completion service asks for a tool in LongIds successive turns, the
\* chain started by one user message stays shorter than that.
C11_ChainDepthBounded == ChainDepth(messages) < LongIds

\* a step that sends a completion request
SendsRequest == pc # "turn" /\ pc' = "turn"

\* C12: a reply without tool calls ends the chain, a request is sent from
\* awaiting-input only for a new user message, and the processing of the
\* tool calls of a reply is left only by sending the request of a new turn.
C12_ToolTurnFollowedByNewTurn ==
  [][ /\ (pc = "turn" /\ messages' # messages
            /\ messages'[Len(messages')].calls = <<>>) => pc' = "idle"
      /\ (pc = "idle" /\ pc' = "turn") =>
            (messages' # <<>> /\ messages'[Len(messages')].role = "user")
      /\ (Processing /\ ~Processing') => pc' = "turn"
    ]_vars

\* C15: the step in which Esc stops the stream of a turn appends nothing to
\* the transcript and returns to awaiting-input.
C15_CancelledTurnDiscarded ==
  [][ (pc = "turn" /\ log' = <<Ev("abort", 0)>>) =>
        (messages' = messages /\ pc' = "idle")
    ]_vars

\* the step in which the completion request of a turn fails
RequestFailed == pc = "turn" /\ log' = Append(log, Ev("error", 0))

\* C16: when the completion request of a turn fails, the transcript is left
\* as it was, ending with the user message or the tool messages that
\* preceded the request, and the controller awaits input with its session
\* and permission state unchanged.
C16_FailedRequestLeavesTranscript ==
  [][ RequestFailed =>
        /\ messages' = messages
        /\ messages' # <<>>
        /\ messages'[Len(messages')].role \in {"user", "tool"}
        /\ pc' = "idle"
        /\ UNCHANGED <<session, store, permVars, useStreaming>>
    ]_vars

\* C16 witness: the request of an automatic turn failed after a tool message
C16_Witness ==
  /\ pc = "idle"
  /\ log # <<>>
  /\ log[Len(log)] = Ev("error", 0)
  /\ messages # <<>>
  /\ messages[Len(messages)].role = "tool"

\* C17: /compact on more than 21 messages leaves 21: the first message and
\* the last 20 in their order; on at most 21 messages it changes nothing;
\* compacting the result changes nothing.
C17_CompactKeepsFirstAndLast20 ==
  [][ (pc = "idle" /\ pc' = "idle") =>
        /\ IF Len(messages) > 21
           THEN /\ Len(messages') = 21
                /\ messages'[1] = messages[1]
                /\ \A i \in 1..20 :
                     messages'[i + 1] = messages[Len(messages) - 20 + i]
           ELSE messages' = messages
        /\ handleCompact(messages') = messages'
    ]_vars

\* C17 witness: a transcript of 23 messages was compacted to 21
C17_Witness ==
  /\ pc = "idle"
  /\ inputs = 2
  /\ Len(messages) = 21
  /\ messages[2].role = "tool"

\* C18: a completion request is sent with a transcript whose estimate is
\* over 80% of the maximum only after a compaction of that transcript.
C18_CompactionBeforeRequest ==
  [][ (SendsRequest /\ OverBudget(messages')) =>
        /\ pc = "idle"
        /\ OverBudget(messages)
        /\ messages' = Append(handleCompact(messages), messages'[Len(messages')])
    ]_vars

(* ======================= properties: tools ============================= *)
\* the occurrences of p in s, counted from the left without overlap
RECURSIVE Occurrences(_, _)
Occurrences(s, p) ==
  IF Len(s) < Len(p) THEN 0
  ELSE IF SubSeq(s, 1, Len(p)) = p
  THEN 1 + Occurrences(SubSeq(s, Len(p) + 1, Len(s)), p)
  ELSE Occurrences(Tail(s), p)
\* s with the occurrences of p (all of them, or the first) replaced by the text n
RECURSIVE Replaced(_, _, _, _)
Replaced(s, p, n, all) ==
  IF Len(s) < Len(p) THEN s
  ELSE IF SubSeq(s, 1, Len(p)) = p
  THEN n \o (IF all THEN Replaced(SubSeq(s, Len(p) + 1, Len(s)), p, n, all)
             ELSE SubSeq(s, Len(p) + 1, Len(s)))
  ELSE <<s[1]>> \o Replaced(Tail(s), p, n, all)
\* a step in which editTool ran on an existing file that could be read and
\* written
EditStep ==
  /\ ops' = ops + 1
  /\ toolParams'.tool = "Edit"
  /\ toolParams'.old_string # <<>>
  /\ file.exists
  /\ toolResult'.kind # "Error editing file"

\* C19: with k the number of occurrences of old_string in the file:
\* without replace_all and k >= 2 the edit fails, names k and leaves the
\* file; with k = 0 it fails and leaves the file; with replace_all and
\* k >= 1 every occurrence is replaced by new_string and k replacements are
\* reported; with k = 1 that occurrence alone is replaced by new_string.
C19_EditOccurrences ==
  [][ EditStep =>
        LET p == toolParams'
            k == Occurrences(file.content, p.old_string)
        IN
        /\ (~p.replace_all /\ k >= 2) =>
              (~toolResult'.success /\ toolResult'.n = k /\ file' = file)
        /\ k = 0 => (~toolResult'.success /\ file' = file)
        /\ (p.replace_all /\ k >= 1) =>
              /\ toolResult'.success
              /\ toolResult'.n = k
              /\ file'.content = Replaced(file.content, p.old_string, p.new_string, TRUE)
        /\ (~p.replace_all /\ k = 1) =>
              /\ toolResult'.success
              /\ file'.content = Replaced(file.content, p.old_string, p.new_string, FALSE)
    ]_vars

\* C20: fetch is called only for URLs that validateUrl allows.
C20_FetchOnlyAllowedUrls == \A u \in fetched : validateUrl(u).allowed

(* ======================= properties: SecurityValidator ================= *)
\* a step in which Read, Write or Bash is invoked
SecuredStep ==
  /\ ops' = ops + 1
  /\ toolParams'.tool \in {"Read", "Write", "Bash"}

\* C21: a Read, Write or Bash invocation that SecurityValidator denies makes
\* no fs call, spawns no process, leaves the file and returns a failed
\* ToolResult; one that it allows with severity medium is not answered with
\* a security failure and goes on to its first fs call or to the spawn.
C21_DeniedHasNoEffect ==
  [][ SecuredStep =>
        /\ ~securityCheck'.allowed =>
              /\ effects' = <<>>
              /\ file' = file
              /\ UNCHANGED procVars
              /\ ~toolResult'.success
              /\ toolResult'.kind = "Security"
        /\ (securityCheck'.allowed /\ securityCheck'.severity = "medium") =>
              /\ toolResult'.kind # "Security"
              /\ toolParams'.size = "small" => effects' # <<>>
    ]_vars
C21_Witness ==
  /\ ops = 2
  /\ toolParams.tool = "Write"
  /\ ~securityCheck.allowed
  /\ toolResult = ToolResult(FALSE, "Security", 0)
  /\ effects = <<>>
  /\ file = [exists |-> TRUE, content |-> <<"b">>]


\* the directories the README lists as blocked
ProtectedDirs ==
  {<<"/", "e", "t", "c">>, <<"/", "p", "r", "o", "c">>, <<"/", "s", "y", "s">>, <<"/", "d", "e", "v">>, <<"/", "b", "o", "o", "t">>, <<"/", "r", "o", "o", "t">>}
Under(p, dir) == p = dir \/ StartsWith(p, dir \o <<"/">>)
Protected(p) == \E dir \in ProtectedDirs : Under(resolve(p), dir)

\* C22: a Read, Write or Edit invocation whose path, resolved, lies under
\* /etc, /proc, /sys, /dev, /boot or /root returns a failed result and
\* neither reads nor writes the file.
C22_ProtectedDirectoriesUntouched ==
  (toolParams.tool \in {"Read", "Write", "Edit"} /\ Protected(toolParams.file_path)) =>
     /\ ~toolResult.success
     /\ \A i \in 1..Len(effects) : effects[i].op \notin {"readFile", "writeFile"}

Destructive(c) ==
  \/ \E i \in 1..Len(DANGEROUS_COMMANDS) : Test(DANGEROUS_COMMANDS[i], c)
  \/ \E re \in CRITICAL_WRITES : Test(re, c)
Escalation(c) == \E re \in PRIVILEGE_ESCALATION : Test(re, c)
CommandChecked == toolParams.tool = "Bash" /\ toolParams.json = "obj"

DenyListed(p) ==
  \E i \in 1..Len(BLOCKED_PATHS) :
     LET b == BLOCKED_PATHS[i]
         loc == IF b[Len(b)] = "/" THEN SubSeq(b, 1, Len(b) - 1) ELSE b
     IN  Under(resolve(p), loc)
PathChecked == toolParams.tool = "validatePath"
Escapes(p, roots) ==
  /\ Contains(p, <<".", ".">>)
  /\ roots # {}
  /\ \A root \in roots : ~StartsWith(resolve(p), resolve(root))

\* C24 as stated: validatePath denies with severity critical every path
\* whose resolved form is or lies under a deny-listed location, with or
\* without allowedRoots.
C24_DenyListedIsCritical ==
  (PathChecked /\ DenyListed(toolParams.file_path)) =>
     (~securityCheck.allowed /\ securityCheck.severity = "critical")

\* C24 amended: validatePath denies every such path; the severity is
\* critical, except that it is high when the path as written holds ".." and
\* resolves outside every root of a supplied allowedRoots.
C24_DenyListedIsDenied ==
  (PathChecked /\ DenyListed(toolParams.file_path)) =>
     /\ ~securityCheck.allowed
     /\ securityCheck.severity =
          (IF Escapes(toolParams.file_path, toolParams.allowedRoots)
           THEN "high" ELSE "critical")
C24_Witness ==
  /\ PathChecked
  /\ toolParams.file_path = UpEtcShadow
  /\ toolParams.allowedRoots = {}
  /\ DenyListed(toolParams.file_path)
  /\ securityCheck.severity = "critical"

\* C25: executeTool ends with a ToolResult, never with a rejection,
\* whatever the parsed parameters are.
C25_ExecuteToolNeverRejects ==
  toolParams.tool \in {"Read", "Write", "Bash"} => toolResult # Rejected

(* ======================= properties: bashTool ========================== *)
\* C26: when the timeout elapses and bash still runs it is sent SIGTERM,
\* when the 5 s elapse and it still runs it is sent SIGKILL, and from then
\* on the invocation eventually returns the failed ToolResult that reports
\* the timeout.
C26_TimeoutEndsTheCall ==
  /\ [][ (timer = "armed" /\ timer' = "grace" /\ child = "running") =>
           signals' = Append(signals, "SIGTERM") ]_vars
  /\ [][ (timer = "grace" /\ timer' = "done" /\ child = "running") =>
           signals' = Append(signals, "SIGKILL") ]_vars
  /\ (pending /\ Includes(signals, "SIGTERM")) ~>
        (~pending /\ toolResult = ToolResult(FALSE, "Command timed out", 0))

(* ------------------------- properties: sessions ------------------------ *)
\* C27: within a session no component of tokenUsage ever decreases; only
\* the explicit /clear puts the counters back to zero.
C27_TokenUsageMonotone ==
  [][\/ /\ tokenUsage'.promptTokens >= tokenUsage.promptTokens
        /\ tokenUsage'.completionTokens >= tokenUsage.completionTokens
        /\ tokenUsage'.totalTokens >= tokenUsage.totalTokens
     \/ /\ Clear
        /\ tokenUsage' = ZeroUsage]_vars

\* C27 witness: two replies with usage have been counted in one session
C27_Witness ==
  /\ tokenUsage.totalTokens = 6
  /\ tokenUsage.promptTokens = 4
  /\ session = 1


\* C30: /c is equivalent to /clear: from every controller state a /c step
\* leaves the state that /clear leaves (the transcript reduced to its leading
\* message, a fresh session record, the token counters at zero).
C30_AliasEquivalentToClear ==
  [][ClearAlias => Clear]_vars

\* the title of the session id is set by this step from the first user
\* message of the saved list: its first 50 characters, with three dots when
\* it has more
Derived(id) ==
  /\ titles[id] = NewConversation
  /\ id = session
  /\ find(messages') # 0
  /\ titles'[id] = titleOf(Content(messages'[find(messages')].content.kind))
Renamed(id) ==
  /\ id = session
  /\ \E name \in Names \ {<<>>} : Rename(name) /\ titles'[id] = name

C28_SavedThenLoadedIsIdentical ==
  [][\A id \in DOMAIN store :
       store'[id] # store[id] => JSON_parse(store'[id]) = messages']_vars

(* ------------------------ GrokChat: model mode ------------------------- *)
\* everything outside the part under study, as after construction
ControllerIdle ==
  /\ StreamIdle
  /\ ToolsIdle
  /\ autoApprove = {}
  /\ alwaysDeny = <<>>
  /\ sessionApproved = {}
  /\ req = NoRequest
  /\ gate = "idle"
  /\ ret = FALSE
  /\ prompts = 0
  /\ answer = "none"
  /\ requests = 0
  /\ messages = <<>>
  /\ session = 0
  /\ store = <<>>
  /\ useStreaming = TRUE
  /\ pc = "none"
  /\ calls = <<>>
  /\ idx = 0
  /\ inputs = 0
  /\ nextId = 1
  /\ log = <<>>
  /\ tokenUsage = ZeroUsage
  /\ titles = <<>>

Grok4_0709 == <<"g", "r", "o", "k", "-", "4", "-", "0", "7", "0", "9">>
Grok41FastReasoning == <<"g", "r", "o", "k", "-", "4", "-", "1", "-", "f", "a", "s", "t", "-", "r", "e", "a", "s", "o", "n", "i", "n", "g">>
Grok41FastNonReasoning == <<"g", "r", "o", "k", "-", "4", "-", "1", "-", "f", "a", "s", "t", "-", "n", "o", "n", "-", "r", "e", "a", "s", "o", "n", "i", "n", "g">>
Grok3 == <<"g", "r", "o", "k", "-", "3">>
Grok3Mini == <<"g", "r", "o", "k", "-", "3", "-", "m", "i", "n", "i">>
Grok4FastReasoning == <<"g", "r", "o", "k", "-", "4", "-", "f", "a", "s", "t", "-", "r", "e", "a", "s", "o", "n", "i", "n", "g">>
GrokCodeFast1 == <<"g", "r", "o", "k", "-", "c", "o", "d", "e", "-", "f", "a", "s", "t", "-", "1">>
Grok4 == <<"g", "r", "o", "k", "-", "4">>
Grok2 == <<"g", "r", "o", "k", "-", "2", "-", "1", "2", "1", "2">>
ModelNames ==
  {Grok4_0709, Grok41FastReasoning, Grok41FastNonReasoning, Grok3, Grok3Mini,
   Grok4FastReasoning, GrokCodeFast1, Grok4, Grok2}

EndsWith(t, suffix) ==
  Len(t) >= Len(suffix) /\ SubSeq(t, Len(t) - Len(suffix) + 1, Len(t)) = suffix
\* String.prototype.replace(/suffix$/, '')
replaceAtEnd(t, suffix) ==
  IF EndsWith(t, suffix) THEN SubSeq(t, 1, Len(t) - Len(suffix)) ELSE t

\* parseModelMode: thinkingMode and baseModel of a model name
parseModelMode(model) ==
  IF includes(model, <<"f", "a", "s", "t", "-", "r", "e", "a", "s", "o", "n", "i", "n", "g">>) \/ includes(model, <<"r", "e", "a", "s", "o", "n", "i", "n", "g">>)
  THEN [thinkingMode |-> ~includes(model, <<"n", "o", "n", "-", "r", "e", "a", "s", "o", "n", "i", "n", "g">>),
        baseModel |->
          replaceAtEnd(replaceAtEnd(replaceAtEnd(model, <<"-", "f", "a", "s", "t", "-", "r", "e", "a", "s", "o", "n", "i", "n", "g">>), <<"-", "r", "e", "a", "s", "o", "n", "i", "n", "g">>), <<"-", "n", "o", "n", "-", "r", "e", "a", "s", "o", "n", "i", "n", "g">>)]
  ELSE [thinkingMode |-> FALSE, baseModel |-> model]

\* getCurrentModel
getCurrentModel(base, thinking) ==
  IF StartsWith(base, <<"g", "r", "o", "k", "-", "4">>)
  THEN base \o (IF thinking THEN <<"-", "f", "a", "s", "t", "-", "r", "e", "a", "s", "o", "n", "i", "n", "g">> ELSE <<"-", "n", "o", "n", "-", "r", "e", "a", "s", "o", "n", "i", "n", "g">>)
  ELSE base

\* toggleThinkingMode: the mode and the model of the new client
toggleThinkingMode(base, thinking) ==
  [thinkingMode |-> ~thinking, clientModel |-> getCurrentModel(base, ~thinking)]

\* new GrokChat({model}): parseModelMode, then the client for getCurrentModel
ModelInit ==
  /\ ControllerIdle
  /\ RestIdle
  /\ initialModel \in ModelNames
  /\ baseModel = parseModelMode(initialModel).baseModel
  /\ thinkingMode = parseModelMode(initialModel).thinkingMode
  /\ clientModel = getCurrentModel(baseModel, thinkingMode)
  /\ modelSetBy = "constructor"

Unchanged_outside_model ==
  UNCHANGED <<permVars, pmVars, chatVars, streamVars, toolVars, turnVars,
              wireVars, searchVars, initialModel>>

\* Tab on an empty line
ToggleThinkingMode ==
  /\ thinkingMode' = toggleThinkingMode(baseModel, thinkingMode).thinkingMode
  /\ clientModel' = toggleThinkingMode(baseModel, thinkingMode).clientModel
  /\ modelSetBy' = "toggle"
  /\ UNCHANGED baseModel
  /\ Unchanged_outside_model

\* /model <name> or a selection that is not the current model: a new client
HandleModel(name) ==
  /\ name # clientModel
  /\ clientModel' = name
  /\ modelSetBy' = "model"
  /\ UNCHANGED <<baseModel, thinkingMode>>
  /\ Unchanged_outside_model

NextModel ==
  \/ ToggleThinkingMode
  \/ \E name \in ModelNames : HandleModel(name)

SpecModel == ModelInit /\ [][NextModel]_vars

(* ------------------------ GrokClient.chatStream ------------------------ *)
\* The response body is a sequence of bytes; LF, CR and Q stand for the line
\* feed, the carriage return and the double quote, C3 A9 is a two-byte
\* character. A payload is JSON when it is a number or a quoted text.
LF == "LF"
Whitespace == {" ", "CR", "LF"}
DataPrefix == <<"d", "a", "t", "a", ":", " ">>
DoneLine == <<"d", "a", "t", "a", ":", " ", "[", "D", "O", "N", "E", "]">>
MaxReads == 3

\* TextDecoder.decode(value, {stream: true}): the characters of the bytes,
\* an incomplete character at the end is held back
RECURSIVE decode(_)
decode(bytes) ==
  IF bytes = <<>> THEN [text |-> <<>>, held |-> <<>>]
  ELSE IF bytes[1] = "C3"
  THEN IF Len(bytes) = 1 THEN [text |-> <<>>, held |-> bytes]
       ELSE LET r == decode(SubSeq(bytes, 3, Len(bytes)))
            IN  [text |-> <<"C3A9">> \o r.text, held |-> r.held]
  ELSE LET r == decode(Tail(bytes))
       IN  [text |-> <<bytes[1]>> \o r.text, held |-> r.held]

\* String.prototype.trim
RECURSIVE trimStart(_)
trimStart(t) ==
  IF t # <<>> /\ t[1] \in Whitespace THEN trimStart(Tail(t)) ELSE t
RECURSIVE trimEnd(_)
trimEnd(t) ==
  IF t # <<>> /\ t[Len(t)] \in Whitespace
  THEN trimEnd(SubSeq(t, 1, Len(t) - 1)) ELSE t
trim(t) == trimEnd(trimStart(t))

\* JSON.parse succeeds on the payload
IsJson(payload) ==
  LET p == trim(payload) IN
  \/ p # <<>> /\ \A i \in 1..Len(p) : p[i] \in {"0", "1", "2"}
  \/ /\ Len(p) >= 2 /\ p[1] = "Q" /\ p[Len(p)] = "Q"
     /\ \A i \in 2..(Len(p) - 1) : p[i] \notin {"Q", "LF", "CR"}

\* the body of "for (const line of lines)": the frames of complete lines
RECURSIVE framesOf(_)
framesOf(lines) ==
  IF lines = <<>> THEN <<>>
  ELSE LET trimmed == trim(Head(lines))
           rest == framesOf(Tail(lines))
       IN  IF trimmed = <<>> \/ trimmed = DoneLine THEN rest
           ELSE IF StartsWith(trimmed, DataPrefix)
                   /\ IsJson(SubSeq(trimmed, Len(DataPrefix) + 1, Len(trimmed)))
           THEN <<trim(SubSeq(trimmed, Len(DataPrefix) + 1, Len(trimmed)))>> \o rest
           ELSE rest

\* a chatStream that handles every line of a read at once and keeps nothing
chatStream_keepsNothing(st, value) ==
  LET d == decode(st.decoder \o value)
      lines == split(st.lineBuffer \o d.text, <<LF>>)
  IN  [decoder |-> d.held,
       lineBuffer |-> <<>>,
       yielded |-> st.yielded \o framesOf(lines)]

\* one pass of "while (true)" after reader.read() gave value: the decoded
\* text is added to the buffer, the text after the last line feed is kept,
\* the lines before it are handled
chatStream(st, value) ==
  LET d == decode(st.decoder \o value)
      lines == split(st.lineBuffer \o d.text, <<LF>>)
  IN  [decoder |-> d.held,
       lineBuffer |-> lines[Len(lines)],
       yielded |-> st.yielded \o framesOf(SubSeq(lines, 1, Len(lines) - 1))]

BodyTexts ==
  {<<"d", "a", "t", "a", ":", " ", "1", "LF", "d", "a", "t", "a", ":", " ", "2", "LF", "d", "a", "t", "a", ":", " ", "[", "D", "O", "N", "E", "]", "LF">>,
   <<"d", "a", "t", "a", ":", " ", "1", "2", "LF", "LF", "d", "a", "t", "a", ":", " ", "[", "D", "O", "N", "E", "]", "LF">>,
   <<"d", "a", "t", "a", ":", " ", "1", "CR", "LF", "d", "a", "t", "a", ":", " ", "2", "CR", "LF">>,
   <<"d", "a", "t", "a", ":", " ", "Q", "C3", "A9", "Q", "LF", "d", "a", "t", "a", ":", " ", "[", "D", "O", "N", "E", "]", "LF">>,
   <<"d", "a", "t", "a", ":", " ", "1", "LF", "d", "a", "t", "a", ":", " ", "2">>,
   <<":", " ", "x", "LF", "d", "a", "t", "a", ":", " ", "{", "LF", "d", "a", "t", "a", ":", " ", "1", "LF">>,
   <<" ", "d", "a", "t", "a", ":", " ", "1", " ", "LF", "d", "a", "t", "a", ":", " ", " ", "[", "D", "O", "N", "E", "]", "LF">>}
\* the ways the network delivers a body in at most MaxReads reads
SplitsOf(t) ==
  {<<t>>} \cup
  {<<SubSeq(t, 1, i), SubSeq(t, i + 1, Len(t))>> : i \in 1..(Len(t) - 1)} \cup
  {<<SubSeq(t, 1, ij[1]), SubSeq(t, ij[1] + 1, ij[2]), SubSeq(t, ij[2] + 1, Len(t))>> :
     ij \in {p \in (1..(Len(t) - 1)) \X (1..(Len(t) - 1)) : p[1] < p[2]}}

WireInit ==
  /\ ControllerIdle
  /\ ModelIdle
  /\ TurnIdle
  /\ SearchIdle
  /\ wire \in {[text |-> t, reads |-> r, taken |-> 0, done |-> FALSE] :
                 t \in BodyTexts, r \in UNION {SplitsOf(u) : u \in BodyTexts}}
  /\ Len(wire.reads) <= MaxReads
  /\ wire.text = join(wire.reads, <<>>)
  /\ decoder = NoText
  /\ lineBuffer = NoText
  /\ yielded = <<>>

Unchanged_outside_wire ==
  UNCHANGED <<permVars, pmVars, chatVars, streamVars, toolVars, turnVars,
              modelVars, searchVars>>

\* reader.read() resolves with the next part of the body
ReadBody ==
  /\ wire.taken < Len(wire.reads)
  /\ LET st == chatStream([decoder |-> decoder, lineBuffer |-> lineBuffer,
                           yielded |-> yielded], wire.reads[wire.taken + 1])
     IN  /\ decoder' = st.decoder
         /\ lineBuffer' = st.lineBuffer
         /\ yielded' = st.yielded
  /\ wire' = [wire EXCEPT !.taken = @ + 1]
  /\ Unchanged_outside_wire

\* reader.read() resolves with done: the loop is left
BodyDone ==
  /\ wire.taken = Len(wire.reads)
  /\ ~wire.done
  /\ wire' = [wire EXCEPT !.done = TRUE]
  /\ UNCHANGED <<decoder, lineBuffer, yielded>>
  /\ Unchanged_outside_wire

NextWire ==
  \/ ReadBody
  \/ BodyDone

SpecWire == WireInit /\ [][NextWire]_vars

(* ------------------------- globTool, grepTool -------------------------- *)
\* A listing is the matching entries in the order the file system yields
\* them; an entry is the rank of its path in lexicographic order.
globMaxResults == 100
grepMaxResults == 50
SmallListing == 4
Rotations == 3
Sizes == {49, 50, 51, 99, 100, 101}

Orders(n) ==
  {p \in [1..n -> 1..n] : \A i, j \in 1..n : i # j => p[i] # p[j]}
Rotated(n, k) == [i \in 1..n |-> ((i + k - 1) % n) + 1]
Listings ==
  UNION {Orders(n) : n \in 0..SmallListing}
  \cup {Rotated(n, k) : n \in Sizes, k \in 0..Rotations}
  \cup {[i \in 1..n |-> n + 1 - i] : n \in Sizes}

\* Array.prototype.slice(0, n)
sliceTo(seq, n) == SubSeq(seq, 1, IF Len(seq) < n THEN Len(seq) ELSE n)

\* globTool: the matches are sorted, the first 100 are shown, the count is
\* the number of matches; a throw of glob() is an error result
globTool(listing, throws) ==
  IF throws
  THEN [tool |-> "Glob", listing |-> listing, failed |-> TRUE, count |-> 0, shown |-> <<>>]
  ELSE LET matches == SortSeq(listing, LAMBDA a, b : a < b)
       IN  [tool |-> "Glob", listing |-> listing, failed |-> FALSE,
            count |-> Len(matches), shown |-> sliceTo(matches, globMaxResults)]

\* grepTool: the lines grep -r wrote, in the order it walked the directory,
\* the first 50 are shown, the count is the number of lines; an exit code
\* other than 0 and 1 is an error result
grepTool(listing, code) ==
  IF code \notin {0, 1}
  THEN [tool |-> "Grep", listing |-> listing, failed |-> TRUE, count |-> 0, shown |-> <<>>]
  ELSE [tool |-> "Grep", listing |-> listing, failed |-> FALSE,
        count |-> Len(listing), shown |-> sliceTo(listing, grepMaxResults)]

SearchInit ==
  /\ ControllerIdle
  /\ ModelIdle
  /\ TurnIdle
  /\ WireIdle
  /\ SearchIdle

Unchanged_outside_search ==
  UNCHANGED <<permVars, pmVars, chatVars, streamVars, toolVars, turnVars,
              modelVars, wireVars, verdicts, lastIndex>>

Glob ==
  /\ \E listing \in Listings, throws \in BOOLEAN :
       /\ throws => listing = <<>>
       /\ found' = globTool(listing, throws)
  /\ Unchanged_outside_search

Grep ==
  /\ \E listing \in Listings, code \in 0..2 :
       /\ code = 0 => listing # <<>>
       /\ code = 1 => listing = <<>>
       /\ found' = grepTool(listing, code)
  /\ Unchanged_outside_search

NextSearch ==
  \/ Glob
  \/ Grep

SpecSearch == SearchInit /\ [][NextSearch]_vars

(* --------------------------- security checks -------------------------- *)
MaxChecks == 3
CheckedPaths == {ATxt, EtcShadow, UpEtcShadow, DotEnv}
CheckedRoots == {{}, {Cwd}}
CheckedCommands == {GitStatus, RmRfRoot, SudoSu, EchoRoot}
CheckedUrls ==
  {<<"h", "t", "t", "p", "s", ":", "/", "/", "e", "x", "a", "m", "p", "l", "e", ".", "c", "o", "m", "/">>,
   <<"h", "t", "t", "p", ":", "/", "/", "l", "o", "c", "a", "l", "h", "o", "s", "t", "/">>,
   <<"h", "t", "t", "p", ":", "/", "/", "1", "0", ".", "0", ".", "0", ".", "1", "/", "x">>,
   <<"f", "t", "p", ":", "/", "/", "e", "x", "a", "m", "p", "l", "e", ".", "c", "o", "m", "/">>}

\* patterns with the g flag: test() starts at lastIndex and moves it
StatefulPatterns_global == TRUE
\* the patterns of the validator are written without the g and y flags
StatefulPatterns == FALSE

\* RegExp.prototype.test: where the search starts, and lastIndex afterwards
searchStart(li) == IF StatefulPatterns THEN li ELSE 0
lastIndexAfter(li, matched, end) ==
  IF StatefulPatterns THEN (IF matched THEN end ELSE 0) ELSE li
searched(text, li) == SubSeq(text, searchStart(li) + 1, Len(text))

ChecksInit ==
  /\ ControllerIdle
  /\ ModelIdle
  /\ TurnIdle
  /\ WireIdle
  /\ SearchIdle

Unchanged_outside_checks ==
  UNCHANGED <<permVars, pmVars, chatVars, streamVars, toolVars, turnVars,
              modelVars, wireVars, found>>

Checked(check, input, text, verdict, matched) ==
  /\ Len(verdicts) < MaxChecks
  /\ verdicts' = Append(verdicts, [check |-> check, input |-> input, verdict |-> verdict])
  /\ lastIndex' = [lastIndex EXCEPT ![check] = lastIndexAfter(@, matched, Len(text))]
  /\ Unchanged_outside_checks

CheckPath(filePath, roots) ==
  LET verdict == validatePath(searched(filePath, lastIndex["path"]), roots)
  IN  Checked("path", <<filePath, roots>>, filePath, verdict,
              verdict.allowed /\ verdict.severity = "medium")

CheckCommand(command) ==
  LET verdict == validateCommand(searched(command, lastIndex["command"]))
  IN  Checked("command", command, command, verdict, verdict # Allowed)

CheckUrl(url) ==
  LET verdict == validateUrl(searched(url, lastIndex["url"]))
  IN  Checked("url", url, url, verdict,
              verdict.reason = "Internal network access is blocked")

NextChecks ==
  \/ \E f \in CheckedPaths, roots \in CheckedRoots : CheckPath(f, roots)
  \/ \E c \in CheckedCommands : CheckCommand(c)
  \/ \E u \in CheckedUrls : CheckUrl(u)

SpecChecks == ChecksInit /\ [][NextChecks]_vars

(* -------------------- properties: PermissionState ---------------------- *)
\* C34: a prompt answered allow-once or deny leaves PermissionState as it
\* was; allow-session adds exactly the scope key of the request to
\* sessionApproved and nothing else; deny-and-block adds exactly the tool
\* name to alwaysDeny and nothing else; a request decided without a prompt
\* changes nothing; and no step removes an entry.
C34_PromptAnswerFrame ==
  [][ /\ (IsAnswer /\ answer' \in {"once", "deny", "null"}) => UNCHANGED permVars
      /\ (IsAnswer /\ answer' = "session") =>
            /\ sessionApproved' =
                 sessionApproved \cup {getSessionKey(req.tool, req.details)}
            /\ UNCHANGED <<autoApprove, alwaysDeny>>
      /\ (IsAnswer /\ answer' = "block") =>
            /\ alwaysDeny' = Append(alwaysDeny, req.tool)
            /\ UNCHANGED <<autoApprove, sessionApproved>>
      /\ IsRequest => UNCHANGED permVars
      /\ sessionApproved \subseteq sessionApproved'
      /\ autoApprove \subseteq autoApprove'
      /\ IsPrefix(alwaysDeny, alwaysDeny')
    ]_vars

\* C34 witness: with a scope key approved and a tool blocked, a prompt was
\* answered allow-once
C34_Witness ==
  /\ gate = "ret" /\ answer = "once" /\ ret
  /\ sessionApproved # {} /\ alwaysDeny # <<>>
  /\ getSessionKey(req.tool, req.details) \notin sessionApproved

\* a Bash request whose command is in none of the classes of getSessionKey
Unclassified(r) == r.tool = "Bash" /\ \A K \in Classes : ~InClass(r, K)
\* an allow-session answer for such a request
ApprovesBare == IsAnswer /\ answer' = "session" /\ Unclassified(req)

\* C35 as stated: a session approval of a Bash command outside every class
\* is stored under the bare key Bash; afterwards every Bash command outside
\* all classes is approved without a prompt, the decision of no class
\* command changes, and the approval of a class changes the decision of no
\* command outside that class.
C35_BareKeyAlwaysApproves ==
  [][ /\ ApprovesBare => sessionApproved' = sessionApproved \cup {"Bash"}
      /\ (IsRequest /\ Unclassified(req') /\ "Bash" \in sessionApproved)
            => NoPromptReturn(TRUE)
      /\ ApprovesBare =>
            \A r \in BashRequests :
              ~Unclassified(r) => requestPermission(r)' = requestPermission(r)
      /\ \A K \in Classes : ApprovesClass(K) =>
            \A r \in BashRequests :
              ~InClass(r, K) => requestPermission(r)' = requestPermission(r)
    ]_vars

\* C35 amended: the same, except that the commands outside all classes are
\* denied, without a prompt, once Bash is blocked: the bare key approves
\* them exactly as long as Bash is not in alwaysDeny.
C35_BareKeyUnlessBlocked ==
  [][ /\ ApprovesBare => sessionApproved' = sessionApproved \cup {"Bash"}
      /\ (IsRequest /\ Unclassified(req') /\ "Bash" \in sessionApproved)
            => NoPromptReturn(~Includes(alwaysDeny, "Bash"))
      /\ ApprovesBare =>
            \A r \in BashRequests :
              ~Unclassified(r) => requestPermission(r)' = requestPermission(r)
      /\ \A K \in Classes : ApprovesClass(K) =>
            \A r \in BashRequests :
              ~InClass(r, K) => requestPermission(r)' = requestPermission(r)
    ]_vars

\* C35 witness: make was approved for the session, gitk was then approved
\* without a prompt, and the commands of the classes still prompt
C35_Witness ==
  /\ sessionApproved = {"Bash"}
  /\ gate = "ret" /\ ret /\ prompts = 0 /\ requests = 2
  /\ req.tool = "Bash" /\ req.details = Obj(Gitk)
  /\ requestPermission([req EXCEPT !.details = Obj(GitStatus)]) = "prompt"
  /\ requestPermission([req EXCEPT !.details = Obj(Ls)]) = "prompt"
  /\ requestPermission([req EXCEPT !.details = Obj(NpmTest)]) = "prompt"

(* ------------------------ properties: the loop ------------------------- *)
\* C31: in every reachable state at most one completion request is
\* outstanding and at most one tool call is in process, and never both:
\* input, prompts, SIGINT and Esc start no second turn and no second tool
\* execution while one is in flight.
C31_OneTurnInFlight ==
  /\ outstanding \in {0, 1}
  /\ executing \in {0, 1}
  /\ outstanding + executing <= 1

\* C31 witness: a request is outstanding after the tool calls of the turn
\* were processed and Ctrl+C arrived
C31_Witness ==
  /\ outstanding = 1
  /\ sigint
  /\ \E k \in 1..Len(messages) : messages[k].role = "tool"

\* C38: when Ctrl+C arrives while a streamed turn is in flight the process
\* does not exit, and from then on the turn only ends: no tool call of that
\* turn is taken up and no further completion request is sent.
C38_SigintStopsTheTurn ==
  [][ /\ (~sigint /\ sigint') => pc' = pc
      /\ sigint => pc' \in {pc, "idle"}
    ]_vars

(* ----------------------- properties: transcript ------------------------ *)
\* C37: after start and any sequence of messages, /clear, /compact, /resume
\* and /history the transcript is not empty and its first message is the
\* system message.
C37_SystemMessageFirst ==
  /\ messages # <<>>
  /\ messages[1].role = "system"

\* the tool messages of msgs that carry the id
Answers(msgs, id) == {i \in 1..Len(msgs) : msgs[i].role = "tool" /\ msgs[i].id = id}
\* every tool call of every assistant message has exactly one tool message
AllAnswered(msgs) ==
  \A p \in 1..Len(msgs) :
    msgs[p].role = "assistant" =>
      \A k \in 1..Len(msgs[p].calls) :
        Cardinality(Answers(msgs, msgs[p].calls[k].id)) = 1

\* C36: whenever a completion request is sent, every tool call listed in an
\* assistant message of the transcript sent is answered by exactly one tool
\* message with its id.
C36_SentTranscriptAnswersEveryCall ==
  [][SendsRequest => AllAnswered(messages')]_vars

(* ----------------------- properties: model mode ------------------------ *)
\* C39: the model asked for at construction is the model of the client
\* that sends the requests, and toggling the thinking mode twice gives back
\* the model name of the current client.
C39_RequestedModelIsUsed ==
  /\ modelSetBy = "constructor" => clientModel = initialModel
  /\ LET once == toggleThinkingMode(baseModel, thinkingMode)
         twice == toggleThinkingMode(baseModel, once.thinkingMode)
     IN  twice.clientModel = clientModel

(* ----------------------- properties: chatStream ------------------------ *)
\* the frames chatStream yields when the whole body arrives in one read
WholeBody(t) ==
  chatStream([decoder |-> <<>>, lineBuffer |-> <<>>, yielded |-> <<>>], t).yielded

\* C40: whatever way the body is split into reads, chatStream has yielded,
\* when the body is done, the frames it yields for the body in one read,
\* and at no time the terminator line as a frame.
C40_FramesIndependentOfReads ==
  /\ wire.done => yielded = WholeBody(wire.text)
  /\ \A k \in 1..Len(yielded) : yielded[k] # <<"[", "D", "O", "N", "E", "]">>

\* C40 witness: a body of two frames and the terminator was read in three
\* parts, one read ending inside a frame, and both frames were yielded
C40_Witness ==
  /\ wire.done
  /\ wire.text = <<"d", "a", "t", "a", ":", " ", "1", "LF", "d", "a", "t", "a", ":", " ", "2", "LF", "d", "a", "t", "a", ":", " ", "[", "D", "O", "N", "E", "]", "LF">>
  /\ Len(wire.reads) = MaxReads
  /\ wire.reads[1] = <<"d", "a", "t", "a", ":", " ", "1", "LF", "d", "a">>
  /\ wire.reads[3] = <<"O", "N", "E", "]", "LF">>
  /\ yielded = << <<"1">>, <<"2">> >>

(* ------------------------ properties: search tools --------------------- *)
MaxResultsOf(tool) == IF tool = "Glob" THEN globMaxResults ELSE grepMaxResults

\* C32: the result of a Glob or Grep call lists the matches in ascending
\* lexicographic order whatever order the file system yielded them in, shows
\* at most 100 (Glob) or 50 (Grep) of them, and reports the total number of
\* matches as the count.
C32_SearchResultsSorted ==
  (found.tool # "none" /\ ~found.failed) =>
    /\ \A i \in 1..(Len(found.shown) - 1) : found.shown[i] < found.shown[i + 1]
    /\ Len(found.shown) <= MaxResultsOf(found.tool)
    /\ found.count = Len(found.listing)

====
